---- MODULE Spec2Model ----
(***************************************************************************)
(* Model of the 3-D scene builder of PDF4QT (PDF3DSceneProcessor and       *)
(* PDF3DBoundingBox, src/Pdf4QtViewerPlugins/Pdf4QtViewerPlugins.pro).     *)
(*                                                                         *)
(* Conventions                                                             *)
(*  - C++ pointers to scene-graph objects are records with a "kind" field; *)
(*    nullptr is Null.  A QNode/QEntity record owns its components (in     *)
(*    addComponent order) and its children (in setParent order).           *)
(*  - floats are integers; a QVector3D is <<x, y, z>>, a QVector4D is      *)
(*    <<x, y, z, w>>.  C++ indices are 0-based, sequences are 1-based.     *)
(*  - a method that can end in more than one way (Q_ASSERT, an undefined   *)
(*    dereference) returns the SET of its outcomes; an outcome is          *)
(*    [status, node] with status "ok", "assert" (Q_ASSERT failed in a      *)
(*    build with assertions) or "crash" (the undefined dereference ended   *)
(*    the process).                                                        *)
(*  - the recursion of createNode is a stack machine: one frame per active *)
(*    createNode call.                                                     *)
(***************************************************************************)
EXTENDS Integers, Sequences, FiniteSets, TLC

VARIABLES
    m_sceneData,          \* the model source handed to createScene
    m_mode,               \* PDF3DSceneProcessor::m_mode
    m_globalAmbientColor, \* PDF3DSceneProcessor::m_globalAmbientColor, <<r, g, b>>
    m_processedNodes,     \* PDF3DSceneProcessor::m_processedNodes
    assertsEnabled,       \* TRUE: Q_ASSERT aborts (debug build); FALSE: Q_ASSERT is a no-op
    pc,                   \* "idle", "building", "aborted" (Q_ASSERT), "crashed" (undefined behaviour)
    stack,                \* active createNode calls, outermost first
    call,                 \* name of the node createNode is being called on, or NoCall
    sceneRoot,            \* Scene::sceneRoot of the last finished createScene, or NoScene
    builds,               \* number of createScene calls so far
    visited,              \* the createNode calls of the current build, in call order:
                          \* [name, caller, idx, result]
    undefinedDeref,       \* TRUE once a null pointer was dereferenced
    points,               \* input of getBoundingBox (pure-function specification)
    boundingBox,          \* result of getBoundingBox
    geometry,             \* input of the geometry encoders (pure-function specification)
    unit,                 \* outcome of the geometry encoder
    shaderCall,           \* input of createMaterialFromShader (pure-function specification)
    materialOutcome,      \* outcome of createMaterialFromShader
    snapper,              \* the fields of a PDFSnapper
    snapInfo,             \* the fields of a PDFSnapInfo: [m_snapPoints, m_snapLines]
    m_diffResult,         \* DifferencesDockWidget::m_diffResult, or Null
    differencesTreeWidget \* the top-level items of ui->differencesTreeWidget

vars == <<m_sceneData, m_mode, m_globalAmbientColor, m_processedNodes, assertsEnabled,
          pc, stack, call, sceneRoot, builds, visited, undefinedDeref,
          points, boundingBox, geometry, unit, shaderCall, materialOutcome,
          snapper, snapInfo, m_diffResult, differencesTreeWidget>>

-----------------------------------------------------------------------------
\* Bounds of the model

MaxBuilds == 2
MaxDepth == 4
MaxTriangles == 2
MaxPoints == 2
MaxLines == 3
MaxSnapPoints == 11
MaxDifferences == 3

-----------------------------------------------------------------------------
\* Program constants

positionVertexSize == 3
normalVertexSize == 3
colorVertexSize == 4
textureVertexSize == 2
sizeofFloat == 4
sizeofUInt == 4

\* static_cast<uint> / uint32_t arithmetic: x mod 2^32, which is x itself on the
\* model's integers (0 .. 2^31 - 1)
UInt32(x) == x

Modes ==
    {"Solid", "SolidWireframe", "Transparent", "TransparentWireframe", "BoundingBox",
     "TransparentBoundingBox", "TransparentBoundingBoxOutline", "Wireframe",
     "ShadedWireframe", "HiddenWireframe", "Vertices", "ShadedVertices",
     "Illustration", "SolidOutline", "ShadedIllustration"}

Null == [kind |-> "nullptr"]
NoCall == "-"
NoScene == [kind |-> "noScene"]
NoVector == <<>>
NoShaderCall == [shaderName |-> "", forceUseVertexColors |-> FALSE]

\* outcomes of a call: ub is TRUE when a null pointer was dereferenced on the way
Ok(n) == [status |-> "ok", node |-> n, ub |-> FALSE]
Fatal(s) == [status |-> s, node |-> Null, ub |-> (s = "crash")]

\* Style parameters (members with plain setters); symbolic values.
getAuxiliaryColor == [color |-> "auxiliary", alpha |-> "opaque"]
getOpacity == "opacity"
m_pointSize == "pointSize"
QtTransparent == [color |-> "transparent", alpha |-> "zero"]
DefaultColor == [color |-> "default", alpha |-> "opaque"]

-----------------------------------------------------------------------------
\* The model source (pdf::u3d::PDF3D_U3D): name-based lookup

getNode(name) == m_sceneData.nodes[name]

getGeometry(name) ==
    IF name \in DOMAIN m_sceneData.geometries THEN m_sceneData.geometries[name] ELSE Null

getLight(name) ==
    IF name \in DOMAIN m_sceneData.lights THEN m_sceneData.lights[name] ELSE Null

getShader(name) ==
    IF name \in DOMAIN m_sceneData.shaders THEN m_sceneData.shaders[name] ELSE Null

getMaterial(name) ==
    IF name \in DOMAIN m_sceneData.materials THEN m_sceneData.materials[name] ELSE Null

\* getTexture returns a QImage by value; a name that is not present gives a null image
getTexture(name) ==
    IF name \in DOMAIN m_sceneData.textures
    THEN m_sceneData.textures[name]
    ELSE [kind |-> "QImage", isNull |-> TRUE, pixels |-> "none"]

hasChildTransform(node) == node.childTransform.kind # "none"
hasConstantChildTransform(node) == node.childTransform.kind = "constant"
getConstantChildTransform(node) == node.childTransform.matrix
getChildTransform(node, childNodeName) == node.childTransform.matrices[childNodeName]

\* geometry accessors.  isEmpty() is declared outside this file: a geometry
\* without positions (points, lines) and without primitives is empty; every
\* other geometry of the inputs has both.
isEmptyGeometry(g) ==
    CASE g.kind = "mesh" -> g.positions = <<>>
      [] g.kind = "pointSet" -> g.points = <<>>
      [] g.kind = "lineSet" -> g.lines = <<>>

getTriangleCount(g) == Len(g.triangles)
getLineCount(g) == Len(g.lines)
getPosition(g, i) == g.positions[i + 1]
getNormal(g, i) == g.normals[i + 1]
getDiffuseColor(g, i) == g.diffuseColors[i + 1]
getTextureCoordinate(g, i) == g.textureCoords[i + 1]
getShaderName(g, i) == g.shaderNames[i + 1]
toVector3D(v) == <<v[1], v[2], v[3]>>

\* points / lines touching vertex index v, in list order
queryPointsByVertexIndex(g, v) == SelectSeq(g.points, LAMBDA p : p.position = v)
queryLinesByVertexIndex(g, v) ==
    SelectSeq(g.lines, LAMBDA l : l.position1 = v \/ l.position2 = v)

-----------------------------------------------------------------------------
\* Scene-graph objects of the host renderer

QNode == [kind |-> "QNode", objectName |-> "", components |-> <<>>, children |-> <<>>]
QEntity == [kind |-> "QEntity", objectName |-> "", components |-> <<>>, children |-> <<>>]

addComponent(entity, component) ==
    [entity EXCEPT !.components = Append(@, component)]

setObjectName(node, name) == [node EXCEPT !.objectName = name]

\* child->setParent(parent): the parent's children list grows at its end
setParent(child, parent) == [parent EXCEPT !.children = Append(@, child)]

QTransform(matrix) == [c |-> "QTransform", matrix |-> matrix]

QAttribute ==
    [name |-> "", attributeType |-> "VertexAttribute", vertexBaseType |-> "Float",
     vertexSize |-> 1, byteOffset |-> 0, byteStride |-> 0, count |-> 0,
     buffer |-> Null]

\* a QBuffer holding a QByteArray resized to `size` bytes into which `data`
\* (4-byte items) was written through an incremented pointer
QBuffer(type, size, data) == [kind |-> "QBuffer", type |-> type, size |-> size, data |-> data]

QGeometryRenderer(primitiveType, attributes) ==
    [c |-> "QGeometryRenderer", primitiveType |-> primitiveType,
     primitiveRestartEnabled |-> FALSE, attributes |-> attributes]

QDiffuseSpecularMaterial ==
    [c |-> "QDiffuseSpecularMaterial", ambient |-> DefaultColor, diffuse |-> DefaultColor,
     specular |-> DefaultColor, alphaBlending |-> FALSE, renderStates |-> <<>>]

QPerVertexColorMaterial ==
    [c |-> "QPerVertexColorMaterial", renderStates |-> <<>>]

\* renderPass->addRenderState(state) on every render pass of the material's effect
addRenderState(material, state) ==
    [material EXCEPT !.renderStates = Append(@, state)]

QPointSize == [s |-> "QPointSize", sizeMode |-> "Fixed", value |-> m_pointSize]
QCullFace == [s |-> "QCullFace", mode |-> "NoCulling"]

\* the auxiliary-color material of the edge and vertex displays
AuxiliaryMaterial ==
    [QDiffuseSpecularMaterial EXCEPT !.ambient = getAuxiliaryColor,
                                     !.diffuse = QtTransparent,
                                     !.specular = QtTransparent]

RECURSIVE FlattenSeq(_)
FlattenSeq(ss) == IF ss = <<>> THEN <<>> ELSE Head(ss) \o FlattenSeq(Tail(ss))

-----------------------------------------------------------------------------
\* PDF3DSceneProcessor::createGenericAttribute

createGenericAttribute(values) ==
    LET positionCount == UInt32(Len(values))
        data == FlattenSeq([i \in 1..Len(values) |-> <<values[i][1], values[i][2], values[i][3]>>])
    IN  [QAttribute EXCEPT !.vertexBaseType = "Float",
                           !.vertexSize = 3,
                           !.attributeType = "VertexAttribute",
                           !.buffer = QBuffer("VertexBuffer", positionCount * 3 * sizeofFloat, data),
                           !.byteOffset = 0,
                           !.byteStride = 3 * sizeofFloat,
                           !.count = positionCount]

createPositionAttribute(positions) ==
    [createGenericAttribute(positions) EXCEPT !.name = "vertexPosition"]

createNormalAttribute(normals) ==
    [createGenericAttribute(normals) EXCEPT !.name = "vertexNormal"]

createColorAttribute(colors) ==
    [createGenericAttribute(colors) EXCEPT !.name = "vertexColor"]

-----------------------------------------------------------------------------
\* PDF3DBoundingBox

\* a variant of qMin that keeps its first argument
qMin_first(a, b) == a

qMin(a, b) == IF a < b THEN a ELSE b
qMax(a, b) == IF a < b THEN b ELSE a

\* PDF3DBoundingBox(): the empty box
EmptyBoundingBox == [m_min |-> NoVector, m_max |-> NoVector]

\* PDF3DBoundingBox(min, max)
PDF3DBoundingBox(min, max) == [m_min |-> min, m_max |-> max]

isEmptyBox(box) == box.m_min = NoVector

RECURSIVE BoundingBoxLoop(_, _, _)
BoundingBoxLoop(pts, min, max) ==
    IF pts = <<>>
    THEN PDF3DBoundingBox(min, max)
    ELSE LET point == Head(pts)
         IN  BoundingBoxLoop(Tail(pts),
                             <<qMin(min[1], point[1]), qMin(min[2], point[2]), qMin(min[3], point[3])>>,
                             <<qMax(max[1], point[1]), qMax(max[2], point[2]), qMax(max[3], point[3])>>)

\* a variant that seeds the minimum and the maximum with the origin
getBoundingBox_originSeed(pts) ==
    IF pts = <<>>
    THEN EmptyBoundingBox
    ELSE BoundingBoxLoop(pts, <<0, 0, 0>>, <<0, 0, 0>>)

getBoundingBox(pts) ==
    IF pts = <<>>
    THEN EmptyBoundingBox
    ELSE BoundingBoxLoop(pts, Head(pts), Head(pts))

\* the 8 corners of a box, in the numbering of createBoundingBox*Geometry (0-based there)
BoxPositions(box) ==
    LET min == box.m_min
        max == box.m_max
    IN  << <<min[1], min[2], min[3]>>,
           <<max[1], min[2], min[3]>>,
           <<max[1], max[2], min[3]>>,
           <<min[1], max[2], min[3]>>,
           <<min[1], min[2], max[3]>>,
           <<max[1], min[2], max[3]>>,
           <<max[1], max[2], max[3]>>,
           <<min[1], max[2], max[3]>> >>

\* a variant of the wire indices whose low ring closes over the diagonal 2-0
WireIndices_diagonal ==
    <<0, 1,  1, 2,  2, 3,  2, 0,
      4, 5,  5, 6,  6, 7,  7, 4,
      0, 4,  1, 5,  2, 6,  3, 7>>

\* a variant of the solid indices whose last triangle is 3, 7, 0
SolidIndices_edgeShared ==
    <<0, 1, 2,  2, 3, 0,
      4, 5, 6,  6, 7, 4,
      0, 1, 5,  0, 4, 5,
      1, 2, 6,  1, 5, 6,
      2, 3, 7,  2, 6, 7,
      3, 0, 4,  3, 7, 0>>

WireIndices ==
    <<0, 1,  1, 2,  2, 3,  3, 0,
      4, 5,  5, 6,  6, 7,  7, 4,
      0, 4,  1, 5,  2, 6,  3, 7>>

SolidIndices ==
    <<0, 1, 2,  2, 3, 0,
      4, 5, 6,  6, 7, 4,
      0, 1, 5,  0, 4, 5,
      1, 2, 6,  1, 5, 6,
      2, 3, 7,  2, 6, 7,
      3, 0, 4,  3, 7, 4>>

BoxPositionAttribute(box) ==
    LET positions == BoxPositions(box)
        positionCount == UInt32(Len(positions))
    IN  [QAttribute EXCEPT !.name = "vertexPosition",
                           !.vertexBaseType = "Float",
                           !.vertexSize = 3,
                           !.attributeType = "VertexAttribute",
                           !.buffer = QBuffer("VertexBuffer", positionCount * 3 * sizeofFloat,
                                              FlattenSeq(positions)),
                           !.byteOffset = 0,
                           !.byteStride = 3 * sizeofFloat,
                           !.count = positionCount]

createBoundingBoxWireGeometry(box) ==
    LET lineCount == UInt32(Len(WireIndices)) \div 2
        indexAttribute ==
            [QAttribute EXCEPT !.attributeType = "IndexAttribute",
                               !.vertexBaseType = "UnsignedInt",
                               !.buffer = QBuffer("IndexBuffer", lineCount * 2 * sizeofUInt, WireIndices),
                               !.count = UInt32(2 * lineCount)]
        geometryRenderer == QGeometryRenderer("Lines", <<BoxPositionAttribute(box), indexAttribute>>)
    IN  addComponent(addComponent(QEntity, geometryRenderer), AuxiliaryMaterial)

createBoundingBoxTransparentGeometry(box) ==
    LET triangleCount == UInt32(Len(SolidIndices)) \div 3
        indexAttribute ==
            [QAttribute EXCEPT !.attributeType = "IndexAttribute",
                               !.vertexBaseType = "UnsignedInt",
                               !.buffer = QBuffer("IndexBuffer", triangleCount * 3 * sizeofUInt, SolidIndices),
                               !.count = UInt32(3 * triangleCount)]
        geometryRenderer == QGeometryRenderer("Triangles", <<BoxPositionAttribute(box), indexAttribute>>)
        color == [getAuxiliaryColor EXCEPT !.alpha = getOpacity]
        material == [QDiffuseSpecularMaterial EXCEPT !.ambient = QtTransparent,
                                                     !.diffuse = color,
                                                     !.specular = QtTransparent,
                                                     !.alphaBlending = TRUE]
    IN  addComponent(addComponent(QEntity, geometryRenderer), addRenderState(material, QCullFace))

\* the BoundingBox, TransparentBoundingBox and TransparentBoundingBoxOutline cases,
\* which the three geometry kinds share word for word
BoundingBoxCase(positions, mode) ==
    LET box == getBoundingBox(positions)
    IN  IF isEmptyBox(box)
        THEN Null   \* break; return nullptr
        ELSE CASE mode = "BoundingBox" -> createBoundingBoxWireGeometry(box)
               [] mode = "TransparentBoundingBox" -> createBoundingBoxTransparentGeometry(box)
               [] mode = "TransparentBoundingBoxOutline" ->
                    setParent(createBoundingBoxTransparentGeometry(box),
                              setParent(createBoundingBoxWireGeometry(box), QNode))

BoundingBoxModes == {"BoundingBox", "TransparentBoundingBox", "TransparentBoundingBoxOutline"}

\* PDF3DSceneProcessor::createVertexGeometry
createVertexGeometry(positions) ==
    LET geometryRenderer == QGeometryRenderer("Points", <<createPositionAttribute(positions)>>)
    IN  addComponent(addComponent(QEntity, geometryRenderer),
                     addRenderState(AuxiliaryMaterial, QPointSize))

-----------------------------------------------------------------------------
\* PDF3DSceneProcessor::createMaterialFromShader
\* Returns the set of outcomes [status, material, ub].

AlphaFunctions ==
    {"NEVER", "LESS", "GREATER", "EQUAL", "NOT_EQUAL", "LEQUAL", "GEQUAL", "ALWAYS"}

\* a variant of the switch that knows Never and Always only
setAlphaFunction_coarse(f) ==
    IF f = "NEVER" THEN "Never" ELSE "Always"

\* the switch over shader->getAlphaTestFunction(); QAlphaTest starts as Never
setAlphaFunction(f) ==
    CASE f = "NEVER" -> "Never"
      [] f = "LESS" -> "Less"
      [] f = "GREATER" -> "Greater"
      [] f = "EQUAL" -> "Equal"
      [] f = "NOT_EQUAL" -> "NotEqual"
      [] f = "LEQUAL" -> "LessOrEqual"
      [] f = "GEQUAL" -> "GreaterOrEqual"
      [] f = "ALWAYS" -> "Always"
      [] OTHER -> "Never"

QAlphaTest(shader) ==
    [s |-> "QAlphaTest", referenceValue |-> shader.alphaTestReference,
     alphaFunction |-> setAlphaFunction(shader.alphaTestFunction)]

\* what is left of a material built through a null pointer
UndefinedMaterial == [c |-> "undefined", renderStates |-> <<>>]

\* outcomes of dereferencing a null pointer: the process ends, or runs on with garbage
NullDereference ==
    {[status |-> "crash", material |-> Null, ub |-> TRUE],
     [status |-> "ok", material |-> UndefinedMaterial, ub |-> TRUE]}

\* a variant that tests the vertex-color flags before the texture bindings
MaterialOfShader_vertexColorFirst(shader, forceUseVertexColors) ==
    IF shader.useVertexColor \/ forceUseVertexColors
    THEN QPerVertexColorMaterial
    ELSE IF shader.textureInfos = <<>>
    THEN [QDiffuseSpecularMaterial EXCEPT
              !.ambient = getMaterial(shader.materialName).ambientColor,
              !.diffuse = getMaterial(shader.materialName).diffuseColor,
              !.specular = getMaterial(shader.materialName).specularColor,
              !.alphaBlending = shader.alphaTestEnabled]
    ELSE [QDiffuseSpecularMaterial EXCEPT
              !.alphaBlending = shader.alphaTestEnabled,
              !.ambient = QtTransparent,
              !.diffuse = [kind |-> "QTexture2D",
                           image |-> getTexture(Head(shader.textureInfos).textureName)],
              !.specular = QtTransparent]

\* a variant that leaves alpha blending as the material is constructed: disabled
MaterialOfShader_opaque(shader, forceUseVertexColors) ==
    IF shader.textureInfos = <<>>
    THEN IF shader.useVertexColor \/ forceUseVertexColors
         THEN QPerVertexColorMaterial
         ELSE [QDiffuseSpecularMaterial EXCEPT
                   !.ambient = getMaterial(shader.materialName).ambientColor,
                   !.diffuse = getMaterial(shader.materialName).diffuseColor,
                   !.specular = getMaterial(shader.materialName).specularColor]
    ELSE [QDiffuseSpecularMaterial EXCEPT
              !.ambient = QtTransparent,
              !.diffuse = [kind |-> "QTexture2D",
                           image |-> getTexture(Head(shader.textureInfos).textureName)],
              !.specular = QtTransparent]

\* lines 1400-1440: the material before the alpha test is attached
MaterialOfShader(shader, forceUseVertexColors) ==
    IF shader.textureInfos = <<>>
    THEN IF shader.useVertexColor \/ forceUseVertexColors
         THEN QPerVertexColorMaterial
         ELSE LET u3dMaterial == getMaterial(shader.materialName)
              IN  [QDiffuseSpecularMaterial EXCEPT
                       !.ambient = u3dMaterial.ambientColor,
                       !.diffuse = u3dMaterial.diffuseColor,
                       !.specular = u3dMaterial.specularColor,
                       !.alphaBlending = shader.alphaTestEnabled]
    ELSE LET textureInfo == Head(shader.textureInfos)
             image == getTexture(textureInfo.textureName)
             texture == [kind |-> "QTexture2D", image |-> image]
         IN  [QDiffuseSpecularMaterial EXCEPT
                  !.alphaBlending = shader.alphaTestEnabled,
                  !.ambient = QtTransparent,
                  !.diffuse = texture,
                  !.specular = QtTransparent]

createMaterialFromShader(shaderName, forceUseVertexColors) ==
    LET shader == getShader(shaderName)
    IN  IF shader = Null
        THEN NullDereference     \* shader->getTextureInfos() on a null shader
        ELSE IF /\ shader.textureInfos = <<>>
                /\ ~(shader.useVertexColor \/ forceUseVertexColors)
                /\ getMaterial(shader.materialName) = Null
        THEN NullDereference     \* u3dMaterial->getAmbientColor() on a null material
        ELSE LET material == MaterialOfShader(shader, forceUseVertexColors)
             IN  IF ~shader.alphaTestEnabled
                 THEN {[status |-> "ok", material |-> material, ub |-> FALSE]}
                 ELSE IF shader.alphaTestFunction \notin AlphaFunctions /\ assertsEnabled
                 THEN {[status |-> "assert", material |-> Null, ub |-> FALSE]}
                 ELSE {[status |-> "ok", material |-> addRenderState(material, QAlphaTest(shader)),
                        ub |-> FALSE]}

\* entity->addComponent(material) for every outcome of the material resolution
WithMaterial(entity, materials) ==
    { IF m.status = "ok"
      THEN [status |-> "ok", node |-> addComponent(entity, m.material), ub |-> m.ub]
      ELSE [status |-> m.status, node |-> Null, ub |-> m.ub] : m \in materials }

\* Q_ASSERT(false); break; ... return nullptr
AssertFalse == IF assertsEnabled THEN {Fatal("assert")} ELSE {Ok(Null)}

-----------------------------------------------------------------------------
\* PDF3DSceneProcessor::createMeshGeometry

\* a variant of the edge list without the closing edge v2-v0
TriangleEdges_open(triangle) ==
    <<triangle.vertices[1].positionIndex, triangle.vertices[2].positionIndex,
      triangle.vertices[2].positionIndex, triangle.vertices[3].positionIndex>>

\* lines 445-453: the six indices of one triangle
TriangleEdges(triangle) ==
    <<triangle.vertices[1].positionIndex, triangle.vertices[2].positionIndex,
      triangle.vertices[2].positionIndex, triangle.vertices[3].positionIndex,
      triangle.vertices[3].positionIndex, triangle.vertices[1].positionIndex>>

MeshWireframe(meshGeometry) ==
    LET positionAttribute == createPositionAttribute(meshGeometry.positions)
        lineCount == UInt32(UInt32(getTriangleCount(meshGeometry)) * 3)
        indexBufferData ==
            FlattenSeq([k \in 1..Len(meshGeometry.triangles) |->
                            TriangleEdges(meshGeometry.triangles[k])])
        indexAttribute ==
            [QAttribute EXCEPT !.attributeType = "IndexAttribute",
                               !.vertexBaseType = "UnsignedInt",
                               !.buffer = QBuffer("IndexBuffer", lineCount * 2 * sizeofUInt,
                                                  indexBufferData),
                               !.count = UInt32(2 * lineCount)]
        geometryRenderer == QGeometryRenderer("Lines", <<positionAttribute, indexAttribute>>)
    IN  addComponent(addComponent(QEntity, geometryRenderer), AuxiliaryMaterial)

\* a variant of the vertex layout that writes the color before the normal
VertexFloats_colorFirst(meshGeometry, vertex) ==
    LET position == meshGeometry.positions[vertex.positionIndex + 1]
        normal == meshGeometry.normals[vertex.normalIndex + 1]
        diffuseColor == meshGeometry.diffuseColors[vertex.diffuseColorIndex + 1]
        textureCoordinate == meshGeometry.textureCoords[vertex.textureCoordIndex + 1]
    IN  <<position[1], position[2], position[3],
          diffuseColor[1], diffuseColor[2], diffuseColor[3], diffuseColor[4],
          normal[1], normal[2], normal[3],
          textureCoordinate[1], textureCoordinate[2]>>

\* lines 526-549: the 12 floats of one vertex
VertexFloats(meshGeometry, vertex) ==
    LET position == getPosition(meshGeometry, vertex.positionIndex)
        normal == getNormal(meshGeometry, vertex.normalIndex)
        diffuseColor == getDiffuseColor(meshGeometry, vertex.diffuseColorIndex)
        textureCoordinate == getTextureCoordinate(meshGeometry, vertex.textureCoordIndex)
    IN  <<position[1], position[2], position[3],
          normal[1], normal[2], normal[3],
          diffuseColor[1], diffuseColor[2], diffuseColor[3], diffuseColor[4],
          textureCoordinate[1], textureCoordinate[2]>>

TriangleFloats(meshGeometry, triangle) ==
    FlattenSeq([v \in 1..3 |-> VertexFloats(meshGeometry, triangle.vertices[v])])

\* lines 495-505
SolidStride ==
    UInt32((positionVertexSize + normalVertexSize + colorVertexSize + textureVertexSize) * sizeofFloat)
positionVertexByteOffset == 0
normalVertexByteOffset == positionVertexByteOffset + positionVertexSize * sizeofFloat
colorVertexByteOffset == normalVertexByteOffset + normalVertexSize * sizeofFloat
textureVertexByteOffset == colorVertexByteOffset + colorVertexSize * sizeofFloat

SolidAttribute(name, dataSize, byteOffset, vertexBuffer, triangleCount) ==
    [QAttribute EXCEPT !.name = name,
                       !.attributeType = "VertexAttribute",
                       !.vertexBaseType = "Float",
                       !.vertexSize = dataSize,
                       !.buffer = vertexBuffer,
                       !.byteOffset = byteOffset,
                       !.byteStride = SolidStride,
                       !.count = UInt32(triangleCount * 3)]

\* the triangle-list entity of the Solid case, before its material is added
MeshSolidEntity(meshGeometry) ==
    LET triangleCount == UInt32(getTriangleCount(meshGeometry))
        vertexBufferData ==
            FlattenSeq([k \in 1..Len(meshGeometry.triangles) |->
                            TriangleFloats(meshGeometry, meshGeometry.triangles[k])])
        vertexBuffer == QBuffer("VertexBuffer", UInt32(triangleCount * 3 * SolidStride),
                                vertexBufferData)
        geometryRenderer ==
            QGeometryRenderer("Triangles",
                <<SolidAttribute("vertexPosition", positionVertexSize, positionVertexByteOffset,
                                 vertexBuffer, triangleCount),
                  SolidAttribute("vertexNormal", normalVertexSize, normalVertexByteOffset,
                                 vertexBuffer, triangleCount),
                  SolidAttribute("vertexColor", colorVertexSize, colorVertexByteOffset,
                                 vertexBuffer, triangleCount),
                  SolidAttribute("vertexTexCoord", textureVertexSize, textureVertexByteOffset,
                                 vertexBuffer, triangleCount)>>)
    IN  addComponent(QEntity, geometryRenderer)

createMeshGeometry(meshGeometry) ==
    IF isEmptyGeometry(meshGeometry)
    THEN {Ok(Null)}
    ELSE CASE m_mode \in BoundingBoxModes ->
                {Ok(BoundingBoxCase(meshGeometry.positions, m_mode))}
           [] m_mode = "Wireframe" -> {Ok(MeshWireframe(meshGeometry))}
           [] m_mode = "Vertices" -> {Ok(createVertexGeometry(meshGeometry.positions))}
           [] m_mode = "Solid" ->
                WithMaterial(MeshSolidEntity(meshGeometry),
                             createMaterialFromShader(getShaderName(meshGeometry, 0), FALSE))
           [] OTHER -> AssertFalse

-----------------------------------------------------------------------------
\* PDF3DSceneProcessor::createPointSetGeometry

\* the point-list entity with one RGB color per position (lines 722-788, 1002-1077)
ColoredPoints(positions, colors) ==
    LET positionAttribute == createPositionAttribute(positions)
        positionCount == positionAttribute.count
        colorAttribute ==
            [QAttribute EXCEPT !.name = "vertexColor",
                               !.vertexBaseType = "Float",
                               !.vertexSize = 3,
                               !.attributeType = "VertexAttribute",
                               !.buffer = QBuffer("VertexBuffer", positionCount * 3 * sizeofFloat,
                                                  FlattenSeq(colors)),
                               !.byteOffset = 0,
                               !.byteStride = 3 * sizeofFloat,
                               !.count = positionCount]
        geometryRenderer == QGeometryRenderer("Points", <<positionAttribute, colorAttribute>>)
    IN  addComponent(addComponent(QEntity, geometryRenderer),
                     addRenderState(QPerVertexColorMaterial, QPointSize))

\* a variant that takes the color of the last point of the vertex
PointSetVertexColor_last(pointSetGeometry, i) ==
    LET pts == queryPointsByVertexIndex(pointSetGeometry, i)
    IN  IF pts # <<>>
        THEN toVector3D(getDiffuseColor(pointSetGeometry, pts[Len(pts)].diffuseColor))
        ELSE <<0, 0, 0>>

\* lines 736-743: the color of vertex i (0-based)
PointSetVertexColor(pointSetGeometry, i) ==
    LET pts == queryPointsByVertexIndex(pointSetGeometry, i)
    IN  IF pts # <<>>
        THEN toVector3D(getDiffuseColor(pointSetGeometry, Head(pts).diffuseColor))
        ELSE <<0, 0, 0>>

PointSetVerticesModes == {"Illustration", "ShadedIllustration", "Wireframe", "Vertices"}

PointSetColoredModes ==
    {"ShadedWireframe", "HiddenWireframe", "SolidOutline", "Transparent",
     "TransparentWireframe", "Solid", "SolidWireframe", "ShadedVertices"}

\* a variant that looks at the mode first and at emptiness in the colored modes only
createPointSetGeometry_modeFirst(pointSetGeometry) ==
    CASE m_mode \in BoundingBoxModes ->
            {Ok(BoundingBoxCase(pointSetGeometry.positions, m_mode))}
      [] m_mode \in PointSetVerticesModes ->
            {Ok(createVertexGeometry(pointSetGeometry.positions))}
      [] m_mode \in PointSetColoredModes ->
            IF isEmptyGeometry(pointSetGeometry)
            THEN {Ok(Null)}
            ELSE {Ok(ColoredPoints(pointSetGeometry.positions,
                        [k \in 1..UInt32(Len(pointSetGeometry.positions)) |->
                            PointSetVertexColor(pointSetGeometry, k - 1)]))}
      [] OTHER -> AssertFalse

createPointSetGeometry(pointSetGeometry) ==
    IF isEmptyGeometry(pointSetGeometry)
    THEN {Ok(Null)}
    ELSE CASE m_mode \in BoundingBoxModes ->
                {Ok(BoundingBoxCase(pointSetGeometry.positions, m_mode))}
           [] m_mode \in PointSetVerticesModes ->
                {Ok(createVertexGeometry(pointSetGeometry.positions))}
           [] m_mode \in PointSetColoredModes ->
                {Ok(ColoredPoints(pointSetGeometry.positions,
                        [k \in 1..UInt32(Len(pointSetGeometry.positions)) |->
                            PointSetVertexColor(pointSetGeometry, k - 1)]))}
           [] OTHER -> AssertFalse

-----------------------------------------------------------------------------
\* PDF3DSceneProcessor::createLineSetGeometry

LineSetWireframe(lineSetGeometry) ==
    LET positionAttribute == createPositionAttribute(lineSetGeometry.positions)
        lineCount == UInt32(getLineCount(lineSetGeometry))
        indexBufferData ==
            FlattenSeq([k \in 1..lineCount |->
                <<lineSetGeometry.lines[k].position1, lineSetGeometry.lines[k].position2>>])
        indexAttribute ==
            [QAttribute EXCEPT !.attributeType = "IndexAttribute",
                               !.vertexBaseType = "UnsignedInt",
                               !.buffer = QBuffer("IndexBuffer", lineCount * 2 * sizeofUInt,
                                                  indexBufferData),
                               !.count = UInt32(2 * lineCount)]
        geometryRenderer == QGeometryRenderer("Lines", <<positionAttribute, indexAttribute>>)
    IN  addComponent(addComponent(QEntity, geometryRenderer), AuxiliaryMaterial)

\* the keys of std::map<uint32_t, std::vector<Line>> shadingIdToLines, ascending
RECURSIVE SortedIds(_)
SortedIds(ids) ==
    IF ids = {}
    THEN <<>>
    ELSE LET least == CHOOSE x \in ids : \A y \in ids : x <= y
         IN  <<least>> \o SortedIds(ids \ {least})

ShadingIds(lineSetGeometry) ==
    SortedIds({lineSetGeometry.lines[k].shadingId : k \in 1..Len(lineSetGeometry.lines)})

\* lines 936-963: the line-list entity of one shading id, before its material is added
LineSetPartitionEntity(lineSetGeometry, shadingId) ==
    LET lines == SelectSeq(lineSetGeometry.lines, LAMBDA l : l.shadingId = shadingId)
        positions ==
            FlattenSeq([k \in 1..Len(lines) |->
                <<getPosition(lineSetGeometry, lines[k].position1),
                  getPosition(lineSetGeometry, lines[k].position2)>>])
        colors ==
            FlattenSeq([k \in 1..Len(lines) |->
                <<toVector3D(getDiffuseColor(lineSetGeometry, lines[k].diffuseColor1)),
                  toVector3D(getDiffuseColor(lineSetGeometry, lines[k].diffuseColor2))>>])
        geometryRenderer ==
            QGeometryRenderer("Lines", <<createPositionAttribute(positions),
                                         createColorAttribute(colors)>>)
    IN  addComponent(QEntity, geometryRenderer)

\* lines 933-972: the loop over the partitions; outcomes [status, entities, ub]
RECURSIVE LineSetEntities(_, _)
LineSetEntities(lineSetGeometry, ids) ==
    IF ids = <<>>
    THEN {[status |-> "ok", entities |-> <<>>, ub |-> FALSE]}
    ELSE UNION {
           IF e.status # "ok"
           THEN {[status |-> e.status, entities |-> <<>>, ub |-> e.ub]}
           ELSE {[status |-> rest.status,
                  entities |-> IF rest.status = "ok" THEN <<e.node>> \o rest.entities ELSE <<>>,
                  ub |-> e.ub \/ rest.ub] : rest \in LineSetEntities(lineSetGeometry, Tail(ids))}
           : e \in WithMaterial(LineSetPartitionEntity(lineSetGeometry, Head(ids)),
                                createMaterialFromShader(getShaderName(lineSetGeometry, Head(ids)), TRUE)) }

RECURSIVE SetParentAll(_, _)
SetParentAll(entities, parent) ==
    IF entities = <<>>
    THEN parent
    ELSE SetParentAll(Tail(entities), setParent(Head(entities), parent))

\* a variant that wraps the entities in a composite even when there is one
LineSetResult_composite(entities) == SetParentAll(entities, QEntity)

\* lines 974-988
LineSetResult(entities) ==
    IF Len(entities) = 1 THEN Head(entities) ELSE SetParentAll(entities, QEntity)

\* a variant that takes the first color of the first line of the vertex
LineSetVertexColor_color1(lineSetGeometry, i) ==
    LET lines == queryLinesByVertexIndex(lineSetGeometry, i)
    IN  IF lines = <<>>
        THEN <<0, 0, 0>>
        ELSE toVector3D(getDiffuseColor(lineSetGeometry, Head(lines).diffuseColor1))

\* lines 1016-1032: the color of vertex i (0-based)
LineSetVertexColor(lineSetGeometry, i) ==
    LET lines == queryLinesByVertexIndex(lineSetGeometry, i)
    IN  IF lines = <<>>
        THEN <<0, 0, 0>>
        ELSE LET line == Head(lines)
                 color1 == IF line.position1 = i
                           THEN toVector3D(getDiffuseColor(lineSetGeometry, line.diffuseColor1))
                           ELSE <<0, 0, 0>>
             IN  IF line.position2 = i
                 THEN toVector3D(getDiffuseColor(lineSetGeometry, line.diffuseColor2))
                 ELSE color1

LineSetWireframeModes == {"Illustration", "ShadedIllustration", "Wireframe"}

LineSetSolidModes ==
    {"ShadedWireframe", "HiddenWireframe", "SolidOutline", "Transparent",
     "TransparentWireframe", "Solid", "SolidWireframe"}

createLineSetGeometry(lineSetGeometry) ==
    IF isEmptyGeometry(lineSetGeometry)
    THEN {Ok(Null)}
    ELSE CASE m_mode \in BoundingBoxModes ->
                {Ok(BoundingBoxCase(lineSetGeometry.positions, m_mode))}
           [] m_mode \in LineSetWireframeModes -> {Ok(LineSetWireframe(lineSetGeometry))}
           [] m_mode \in LineSetSolidModes ->
                { IF o.status = "ok"
                  THEN [status |-> "ok", node |-> LineSetResult(o.entities), ub |-> o.ub]
                  ELSE [status |-> o.status, node |-> Null, ub |-> o.ub]
                  : o \in LineSetEntities(lineSetGeometry, ShadingIds(lineSetGeometry)) }
           [] m_mode = "Vertices" -> {Ok(createVertexGeometry(lineSetGeometry.positions))}
           [] m_mode = "ShadedVertices" ->
                {Ok(ColoredPoints(lineSetGeometry.positions,
                        [k \in 1..UInt32(Len(lineSetGeometry.positions)) |->
                            LineSetVertexColor(lineSetGeometry, k - 1)]))}
           [] OTHER -> AssertFalse

-----------------------------------------------------------------------------
\* PDF3DSceneProcessor::createModelNode, createLightNode, createNode

createModelNode(node) ==
    LET geom == getGeometry(node.resourceName)
        outcomes ==
            IF geom = Null
            THEN {Ok(Null)}
            ELSE CASE geom.kind = "mesh" -> createMeshGeometry(geom)
                   [] geom.kind = "pointSet" -> createPointSetGeometry(geom)
                   [] geom.kind = "lineSet" -> createLineSetGeometry(geom)
                   [] OTHER -> {Ok(Null)}
    IN  { IF o.status = "ok" /\ o.node # Null
          THEN [o EXCEPT !.node = setObjectName(o.node, node.nodeName)]
          ELSE o : o \in outcomes }

\* lines 316-318
\* a variant of the Ambient case that assigns the contribution instead of adding it
AddAmbient_assign(ambient, light) ==
    <<light.color[1] * light.intensity,
      light.color[2] * light.intensity,
      light.color[3] * light.intensity>>

AddAmbient(ambient, light) ==
    <<ambient[1] + light.color[1] * light.intensity,
      ambient[2] + light.color[2] * light.intensity,
      ambient[3] + light.color[3] * light.intensity>>

\* a variant that makes a directional light of every light
LightComponent_directional(light) ==
    [c |-> "QDirectionalLight", color |-> light.color, intensity |-> light.intensity]

\* the light component of a Directional, Point or Spot light
LightComponent(light) ==
    CASE light.type = "Directional" ->
            [c |-> "QDirectionalLight", color |-> light.color, intensity |-> light.intensity]
      [] light.type = "Point" ->
            [c |-> "QPointLight", color |-> light.color, intensity |-> light.intensity,
             constantAttenuation |-> light.attenuation[1],
             linearAttenuation |-> light.attenuation[2],
             quadraticAttenuation |-> light.attenuation[3]]
      [] light.type = "Spot" ->
            [c |-> "QSpotLight", color |-> light.color, intensity |-> light.intensity,
             constantAttenuation |-> light.attenuation[1],
             linearAttenuation |-> light.attenuation[2],
             quadraticAttenuation |-> light.attenuation[3],
             cutOffAngle |-> light.spotAngle]

\* outcomes [status, node, ub, ambient]: ambient is m_globalAmbientColor after the call
WithAmbient(outcomes, ambient) ==
    {[status |-> o.status, node |-> o.node, ub |-> o.ub, ambient |-> ambient] : o \in outcomes}

createLightNode(node) ==
    LET light == getLight(node.resourceName)
    IN  IF light = Null
        THEN WithAmbient({Ok(Null)}, m_globalAmbientColor)
        ELSE CASE light.type = "Ambient" ->
                    WithAmbient({Ok(Null)}, AddAmbient(m_globalAmbientColor, light))
               [] light.type \in {"Directional", "Point", "Spot"} ->
                    WithAmbient({Ok(addComponent(QEntity, LightComponent(light)))},
                                m_globalAmbientColor)
               [] OTHER -> WithAmbient(AssertFalse, m_globalAmbientColor)

\* lines 204-206
UnknownCase == QNode

\* a variant of the Group case that never makes a transform
GroupCase_plain(node) == QNode

\* lines 208-223
GroupCase(node) ==
    IF hasChildTransform(node) /\ hasConstantChildTransform(node)
    THEN addComponent(QEntity, QTransform(getConstantChildTransform(node)))
    ELSE QNode

\* a variant of the View case that makes a node, as the Unknown case does
ViewCase_asNode == QNode

\* lines 237-238: return nullptr
ViewCase == Null

\* lines 200-250: the node a createNode call makes for `node`, before its children
ProcessedNode(node) ==
    LET outcomes ==
            CASE node.type = "Unknown" -> WithAmbient({Ok(UnknownCase)}, m_globalAmbientColor)
              [] node.type = "Group" -> WithAmbient({Ok(GroupCase(node))}, m_globalAmbientColor)
              [] node.type = "Model" -> WithAmbient(createModelNode(node), m_globalAmbientColor)
              [] node.type = "Light" -> createLightNode(node)
              [] node.type = "View" -> WithAmbient({Ok(ViewCase)}, m_globalAmbientColor)
              [] OTHER -> WithAmbient(AssertFalse, m_globalAmbientColor)
    IN  { IF o.status = "ok" /\ o.node # Null
          THEN [o EXCEPT !.node = setObjectName(o.node, node.nodeName)]
          ELSE o : o \in outcomes }

\* a variant that puts the child before the children attached so far
AttachChild_prepend(node, processedNode, childNodeName, childNode) ==
    IF hasChildTransform(node) /\ ~hasConstantChildTransform(node)
    THEN LET entity == addComponent(QEntity, QTransform(getChildTransform(node, childNodeName)))
         IN  [processedNode EXCEPT !.children = <<setParent(childNode, entity)>> \o @]
    ELSE [processedNode EXCEPT !.children = <<childNode>> \o @]

\* a variant that attaches every child to the parent's node itself
AttachChild_direct(node, processedNode, childNodeName, childNode) ==
    setParent(childNode, processedNode)

\* lines 256-272: the parent's node after the built child `childNode` was attached
AttachChild(node, processedNode, childNodeName, childNode) ==
    IF hasChildTransform(node) /\ ~hasConstantChildTransform(node)
    THEN LET entity == addComponent(QEntity, QTransform(getChildTransform(node, childNodeName)))
         IN  setParent(setParent(childNode, entity), processedNode)
    ELSE setParent(childNode, processedNode)

-----------------------------------------------------------------------------
\* PDFSnapInfo, PDFSnapper and DifferencesDockWidget after construction

\* std::nullopt
NullOpt == [has_value |-> FALSE]

\* PDFSnapInfo(): no snap points and no snap lines
PDFSnapInfo == [m_snapPoints |-> <<>>, m_snapLines |-> <<>>]

\* PDFSnapper(): the member initializers are in the header; no snap points, no
\* snapped point, no reference point, no current page, mouse at the origin and
\* a tolerance of zero until setSnapPointTolerance is called
PDFSnapper ==
    [m_snapPoints |-> <<>>, m_snappedPoint |-> NullOpt, m_mousePoint |-> <<0, 0>>,
     m_currentPage |-> -1, m_referencePoint |-> NullOpt, m_snapPointTolerance |-> 0]

\* the objects that a specification does not exercise stay as constructed
OtherObjectsIdle ==
    /\ snapper = PDFSnapper
    /\ snapInfo = PDFSnapInfo
    /\ m_diffResult = Null
    /\ differencesTreeWidget = <<>>

-----------------------------------------------------------------------------
\* PDF3DSceneProcessor::createScene and the recursion of createNode

m_sceneRoot == "r"

Top == stack[Len(stack)]
ChildrenOf(frame) == getNode(frame.name).children

\* lines 125-133: clear the memo, take the scene data, call createNode on the root
createScene ==
    /\ pc = "idle"
    /\ builds < MaxBuilds
    /\ m_processedNodes' = {}
    /\ pc' = "building"
    /\ stack' = <<>>
    /\ call' = m_sceneRoot
    /\ sceneRoot' = NoScene
    /\ builds' = builds + 1
    /\ visited' = <<>>
    /\ UNCHANGED <<m_sceneData, m_mode, m_globalAmbientColor, assertsEnabled, undefinedDeref,
                   points, boundingBox, geometry, unit,
                   shaderCall, materialOutcome,
                   snapper, snapInfo, m_diffResult, differencesTreeWidget>>

\* what a createNode call came to: "node", "null" (nullptr), "assert" or "crash"
ResultOf(o) ==
    IF o.status # "ok" THEN o.status ELSE IF o.node = Null THEN "null" ELSE "node"

\* the record of a createNode call on `name` made from the frame on top of the stack
\* (idx: the position of the name in the caller's child list; 0 for the root)
Visit(name, o) ==
    [name |-> name,
     caller |-> IF stack = <<>> THEN NoCall ELSE Top.name,
     idx |-> IF stack = <<>> THEN 0 ELSE Top.idx,
     result |-> ResultOf(o)]

\* a variant of the null-child branch that leaves the loop (`break`)
ContinueLoop_break(frame) == [frame EXCEPT !.idx = Len(ChildrenOf(frame)) + 1]

\* lines 256-259: the child came back null; `continue` with the next child
ContinueLoop(frame) == [frame EXCEPT !.idx = @ + 1]

\* lines 198-250: createNode is entered for the node named `call`; a null processedNode
\* returns to the caller at once (lines 245-248), which continues its loop
createNodeCall ==
    /\ pc = "building"
    /\ call # NoCall
    /\ \E o \in ProcessedNode(getNode(call)) :
          /\ visited' = Append(visited, Visit(call, o))
          /\ m_globalAmbientColor' = o.ambient
          /\ undefinedDeref' = (undefinedDeref \/ o.ub)
          /\ IF o.status # "ok"
             THEN /\ pc' = (IF o.status = "assert" THEN "aborted" ELSE "crashed")
                  /\ UNCHANGED <<stack, call, sceneRoot>>
             ELSE IF o.node = Null
             THEN /\ call' = NoCall
                  /\ IF stack = <<>>
                     THEN /\ sceneRoot' = Null
                          /\ pc' = "idle"
                          /\ UNCHANGED stack
                     ELSE /\ stack' = [stack EXCEPT ![Len(stack)] = ContinueLoop(@)]
                          /\ UNCHANGED <<pc, sceneRoot>>
             ELSE /\ stack' = Append(stack, [name |-> call, processedNode |-> o.node, idx |-> 1])
                  /\ call' = NoCall
                  /\ UNCHANGED <<pc, sceneRoot>>
    /\ UNCHANGED <<m_sceneData, m_mode, m_processedNodes, assertsEnabled, builds,
                   points, boundingBox, geometry, unit,
                   shaderCall, materialOutcome,
                   snapper, snapInfo, m_diffResult, differencesTreeWidget>>

\* lines 252-254: the loop over node.getChildren() calls createNode on the next child
createNodeChild ==
    /\ pc = "building"
    /\ call = NoCall
    /\ stack # <<>>
    /\ Top.idx <= Len(ChildrenOf(Top))
    /\ Len(stack) < MaxDepth
    /\ call' = ChildrenOf(Top)[Top.idx]
    /\ UNCHANGED <<m_sceneData, m_mode, m_globalAmbientColor, m_processedNodes, assertsEnabled,
                   pc, stack, sceneRoot, builds, visited, undefinedDeref,
                   points, boundingBox, geometry, unit,
                   shaderCall, materialOutcome,
                   snapper, snapInfo, m_diffResult, differencesTreeWidget>>

\* line 275, then lines 261-272 of the caller (or line 133 for the root)
createNodeReturn ==
    /\ pc = "building"
    /\ call = NoCall
    /\ stack # <<>>
    /\ Top.idx > Len(ChildrenOf(Top))
    /\ IF Len(stack) = 1
       THEN /\ sceneRoot' = Top.processedNode
            /\ pc' = "idle"
            /\ stack' = <<>>
       ELSE LET parent == stack[Len(stack) - 1]
                attached == AttachChild(getNode(parent.name), parent.processedNode,
                                        Top.name, Top.processedNode)
            IN  /\ stack' = [SubSeq(stack, 1, Len(stack) - 1) EXCEPT
                                ![Len(stack) - 1] = [parent EXCEPT !.processedNode = attached,
                                                                   !.idx = @ + 1]]
                /\ UNCHANGED <<pc, sceneRoot>>
    /\ UNCHANGED <<m_sceneData, m_mode, m_globalAmbientColor, m_processedNodes, assertsEnabled,
                   call, builds, visited, undefinedDeref,
                   points, boundingBox, geometry, unit,
                   shaderCall, materialOutcome,
                   snapper, snapInfo, m_diffResult, differencesTreeWidget>>

Next == createScene \/ createNodeCall \/ createNodeChild \/ createNodeReturn

-----------------------------------------------------------------------------
\* The scene data of the builds

Vertex(p, n, c, t) ==
    [positionIndex |-> p, normalIndex |-> n, diffuseColorIndex |-> c, textureCoordIndex |-> t]

Triangle(v1, v2, v3) ==
    [vertices |-> <<v1, v2, v3>>, hasTexture |-> FALSE, hasDiffuse |-> TRUE, hasSpecular |-> FALSE]

\* attribute arrays whose values tell the array and the index: position i is
\* <<100+10i, 101+10i, 102+10i>>, normal i <<200+10i, ..>>, color i <<300+10i, ..>>,
\* texture coordinate i <<400+10i, ..>>
TaggedVectors(base, n, size) ==
    [i \in 1..n |-> [k \in 1..size |-> base + 10 * (i - 1) + (k - 1)]]

Mesh(positions, triangles, shaderName) ==
    [kind |-> "mesh", positions |-> positions,
     normals |-> TaggedVectors(200, 2, 3),
     diffuseColors |-> TaggedVectors(300, 2, 4),
     textureCoords |-> TaggedVectors(400, 2, 4),
     triangles |-> triangles, shaderNames |-> <<shaderName>>]

OneTriangle == <<Triangle(Vertex(0, 0, 0, 0), Vertex(1, 1, 0, 1), Vertex(2, 0, 1, 0))>>

Shader(textureNames, useVertexColor, alphaTestEnabled, materialName) ==
    [textureInfos |-> [i \in 1..Len(textureNames) |-> [textureName |-> textureNames[i]]],
     useVertexColor |-> useVertexColor, alphaTestEnabled |-> alphaTestEnabled,
     alphaTestFunction |-> "GEQUAL", alphaTestReference |-> 5, materialName |-> materialName]

Geometries ==
    [meshEmpty |-> Mesh(<<>>, <<>>, "shader"),
     mesh |-> Mesh(TaggedVectors(100, 3, 3), OneTriangle, "shader"),
     meshNoShader |-> Mesh(TaggedVectors(100, 3, 3), OneTriangle, "missingShader"),
     meshNoMaterial |-> Mesh(TaggedVectors(100, 3, 3), OneTriangle, "shaderNoMaterial"),
     meshNoTexture |-> Mesh(TaggedVectors(100, 3, 3), OneTriangle, "shaderNoTexture"),
     pointSet |-> [kind |-> "pointSet", positions |-> TaggedVectors(100, 2, 3),
                   diffuseColors |-> TaggedVectors(300, 2, 4),
                   points |-> <<[position |-> 1, diffuseColor |-> 0]>>],
     lineSet |-> [kind |-> "lineSet", positions |-> TaggedVectors(100, 3, 3),
                  diffuseColors |-> TaggedVectors(300, 2, 4),
                  lines |-> <<[position1 |-> 0, position2 |-> 1, diffuseColor1 |-> 0,
                               diffuseColor2 |-> 1, shadingId |-> 1],
                              [position1 |-> 1, position2 |-> 2, diffuseColor1 |-> 1,
                               diffuseColor2 |-> 1, shadingId |-> 0]>>,
                  shaderNames |-> <<"shader", "shaderTexture">>]]

Light(type, color, intensity) ==
    [type |-> type, color |-> color, intensity |-> intensity,
     attenuation |-> <<1, 2, 3>>, spotAngle |-> 45]

Lights ==
    [ambient |-> Light("Ambient", <<1, 2, 3>>, 2),
     ambient2 |-> Light("Ambient", <<4, 0, 1>>, 1),
     directional |-> Light("Directional", <<1, 1, 1>>, 1),
     point |-> Light("Point", <<1, 0, 0>>, 2),
     spot |-> Light("Spot", <<0, 1, 0>>, 3)]

Shaders ==
    [shader |-> Shader(<<>>, FALSE, FALSE, "material"),
     shaderNoMaterial |-> Shader(<<>>, FALSE, FALSE, "missingMaterial"),
     shaderTexture |-> Shader(<<"texture">>, FALSE, TRUE, "material"),
     shaderNoTexture |-> Shader(<<"missingTexture">>, FALSE, FALSE, "material"),
     shaderVertexColor |-> Shader(<<>>, TRUE, TRUE, "material")]

Materials ==
    [material |-> [ambientColor |-> [color |-> "ambient", alpha |-> "opaque"],
                   diffuseColor |-> [color |-> "diffuse", alpha |-> "opaque"],
                   specularColor |-> [color |-> "specular", alpha |-> "opaque"]],
     material2 |-> [ambientColor |-> [color |-> "ambient2", alpha |-> "opaque"],
                    diffuseColor |-> [color |-> "diffuse2", alpha |-> "half"],
                    specularColor |-> [color |-> "specular2", alpha |-> "opaque"]]]

Textures ==
    [texture |-> [kind |-> "QImage", isNull |-> FALSE, pixels |-> "texture"],
     texture2 |-> [kind |-> "QImage", isNull |-> FALSE, pixels |-> "texture2"]]

SceneData(nodes) ==
    [nodes |-> nodes, geometries |-> Geometries, lights |-> Lights, shaders |-> Shaders,
     materials |-> Materials, textures |-> Textures]

NodeNames == {"r", "a", "b"}

NoTransform == [kind |-> "none"]
ConstantTransform(name) == [kind |-> "constant", matrix |-> <<"M", name>>]
PerChildTransform(name) ==
    [kind |-> "perChild", matrices |-> [c \in NodeNames |-> <<"M", name, c>>]]

ChildTransforms(name) == {NoTransform, ConstantTransform(name), PerChildTransform(name)}

\* the child lists of the three nodes: a fan, a chain, a shared child, repeated
\* children, and graphs in which a node reaches itself
Shapes ==
    {[r |-> <<"a", "b">>, a |-> <<>>, b |-> <<>>],
     [r |-> <<"b", "a">>, a |-> <<>>, b |-> <<>>],
     [r |-> <<"a">>, a |-> <<"b">>, b |-> <<>>],
     [r |-> <<"a", "b">>, a |-> <<"b">>, b |-> <<>>],
     [r |-> <<"a", "a">>, a |-> <<"b">>, b |-> <<>>],
     [r |-> <<"a">>, a |-> <<"r">>, b |-> <<>>],
     [r |-> <<"a">>, a |-> <<"b", "a">>, b |-> <<>>]}

Node(name, type, children, childTransform, resourceName) ==
    [nodeName |-> name, type |-> type, children |-> children,
     childTransform |-> childTransform, resourceName |-> resourceName]

\* type and resource of a node
Plain == {<<"Unknown", "">>, <<"Group", "">>, <<"View", "">>}
ModelKinds == {<<"Model", g>> : g \in DOMAIN Geometries \cup {"missing"}}
LightKinds == {<<"Light", l>> : l \in DOMAIN Lights \cup {"missing"}}

Nodes(shape, kr, tr, ka, ta, kb) ==
    [r |-> Node("r", kr[1], shape.r, tr, kr[2]),
     a |-> Node("a", ka[1], shape.a, ta, ka[2]),
     b |-> Node("b", kb[1], shape.b, NoTransform, kb[2])]

\* every shape with every mix of node types, built in Solid mode
StructureInputs ==
    {[nodes |-> Nodes(shape, kr, tr, ka, ta, kb), mode |-> "Solid", asserts |-> TRUE] :
        shape \in Shapes,
        kr \in {<<"Group", "">>, <<"Unknown", "">>, <<"View", "">>,
                <<"Model", "mesh">>, <<"Model", "meshEmpty">>},
        tr \in ChildTransforms("r"),
        ka \in Plain \cup {<<"Model", "mesh">>, <<"Model", "meshEmpty">>, <<"Model", "missing">>,
                           <<"Model", "meshNoShader">>, <<"Light", "ambient">>,
                           <<"Light", "directional">>, <<"Light", "missing">>},
        ta \in {NoTransform, PerChildTransform("a")},
        kb \in {<<"Unknown", "">>, <<"View", "">>, <<"Model", "mesh">>,
                <<"Light", "ambient2">>, <<"Light", "spot">>, <<"Light", "missing">>}}

\* every geometry and light resource (and a View) under a Group root, in every
\* mode, with and without assertions
ModeInputs ==
    {[nodes |-> Nodes(shape, <<"Group", "">>, NoTransform, ka, NoTransform, <<"Light", "ambient">>),
      mode |-> mode, asserts |-> asserts] :
        shape \in {[r |-> <<"a", "b">>, a |-> <<>>, b |-> <<>>],
                   [r |-> <<"a">>, a |-> <<"b">>, b |-> <<>>]},
        ka \in ModelKinds \cup LightKinds \cup {<<"View", "">>},
        mode \in Modes,
        asserts \in BOOLEAN}

SceneInputs == StructureInputs \cup ModeInputs

NotComputed == [done |-> FALSE]

\* the state after construction of a PDF3DSceneProcessor that was given its mode
Init ==
    \E input \in SceneInputs :
        /\ m_sceneData = SceneData(input.nodes)
        /\ m_mode = input.mode
        /\ assertsEnabled = input.asserts
        /\ m_globalAmbientColor = <<0, 0, 0>>
        /\ m_processedNodes = {}
        /\ pc = "idle"
        /\ stack = <<>>
        /\ call = NoCall
        /\ sceneRoot = NoScene
        /\ builds = 0
        /\ visited = <<>>
        /\ undefinedDeref = FALSE
        /\ points = <<>>
        /\ boundingBox = NotComputed
        /\ geometry = Null
        /\ unit = NotComputed
        /\ shaderCall = NoShaderCall
        /\ materialOutcome = NotComputed
        /\ OtherObjectsIdle

Spec == Init /\ [][Next]_vars

-----------------------------------------------------------------------------
\* Pure functions under bounded inputs

Coords == {-1, 0, 1}
Vectors == {<<x, y, z>> : x \in Coords, y \in Coords, z \in Coords}

RECURSIVE SeqsUpTo(_, _)
SeqsUpTo(S, n) ==
    IF n = 0
    THEN {<<>>}
    ELSE LET shorter == SeqsUpTo(S, n - 1)
         IN  shorter \cup {Append(q, x) : q \in shorter, x \in S}

Idle ==
    /\ m_globalAmbientColor = <<0, 0, 0>>
    /\ m_processedNodes = {}
    /\ pc = "idle"
    /\ stack = <<>>
    /\ call = NoCall
    /\ sceneRoot = NoScene
    /\ builds = 0
    /\ visited = <<>>
    /\ undefinedDeref = FALSE
    /\ shaderCall = NoShaderCall
    /\ materialOutcome = NotComputed
    /\ OtherObjectsIdle

\* PDF3DBoundingBox::getBoundingBox applied to `points`
ComputeBoundingBox ==
    /\ boundingBox = NotComputed
    /\ boundingBox' = [done |-> TRUE, box |-> getBoundingBox(points)]
    /\ UNCHANGED <<m_sceneData, m_mode, m_globalAmbientColor, m_processedNodes, assertsEnabled,
                   pc, stack, call, sceneRoot, builds, visited, undefinedDeref,
                   points, geometry, unit,
                   shaderCall, materialOutcome,
                   snapper, snapInfo, m_diffResult, differencesTreeWidget>>

\* lines 284-295: the encoder of the kind of `geometry`, applied to it
EncodeGeometry ==
    /\ unit = NotComputed
    /\ \E o \in (CASE geometry.kind = "mesh" -> createMeshGeometry(geometry)
                   [] geometry.kind = "pointSet" -> createPointSetGeometry(geometry)
                   [] geometry.kind = "lineSet" -> createLineSetGeometry(geometry)) :
          /\ unit' = [done |-> TRUE, status |-> o.status, node |-> o.node]
          /\ undefinedDeref' = (undefinedDeref \/ o.ub)
    /\ UNCHANGED <<m_sceneData, m_mode, m_globalAmbientColor, m_processedNodes, assertsEnabled,
                   pc, stack, call, sceneRoot, builds, visited,
                   points, boundingBox, geometry,
                   shaderCall, materialOutcome,
                   snapper, snapInfo, m_diffResult, differencesTreeWidget>>

\* a mesh over the positions `points` (with one triangle on its first position
\* unless there is no position), in a bounding-box mode
InitBBox ==
    /\ points \in SeqsUpTo(Vectors, MaxPoints)
    /\ m_mode \in BoundingBoxModes
    /\ geometry = Mesh(points,
                       IF points = <<>>
                       THEN <<>>
                       ELSE <<Triangle(Vertex(0, 0, 0, 0), Vertex(0, 0, 0, 0), Vertex(0, 0, 0, 0))>>,
                       "shader")
    /\ m_sceneData = SceneData(<<>>)
    /\ assertsEnabled = TRUE
    /\ boundingBox = NotComputed
    /\ unit = NotComputed
    /\ Idle

NextBBox == ComputeBoundingBox \/ EncodeGeometry

SpecBBox == InitBBox /\ [][NextBBox]_vars

\* meshes over three tagged positions with 1 .. MaxTriangles triangles, and the
\* mesh without positions and triangles
MeshVertices == {Vertex(0, 0, 0, 0), Vertex(1, 1, 0, 1), Vertex(2, 0, 1, 0)}

MeshTriangles ==
    {Triangle(t[1], t[2], t[3]) :
        t \in {u \in MeshVertices \X MeshVertices \X MeshVertices : u[1] # u[2] /\ u[2] # u[3]}}

MeshInputs ==
    {Mesh(positions, triangles, shaderName) :
        positions \in {TaggedVectors(100, 3, 3)},
        triangles \in SeqsUpTo(MeshTriangles, MaxTriangles) \ {<<>>},
        shaderName \in {"shader", "shaderTexture", "missingShader"}}
    \cup {Mesh(<<>>, <<>>, "shader")}

InitMesh ==
    /\ geometry \in MeshInputs
    /\ m_mode \in Modes
    /\ assertsEnabled \in BOOLEAN
    /\ m_sceneData = SceneData(<<>>)
    /\ points = <<>>
    /\ boundingBox = NotComputed
    /\ unit = NotComputed
    /\ Idle

NextMesh == EncodeGeometry

SpecMesh == InitMesh /\ [][NextMesh]_vars

\* line sets over three tagged positions with 1 .. MaxLines lines of the shading
\* ids 0, 1, 2, and the line set without positions and lines
Line(position1, position2, shadingId) ==
    [position1 |-> position1, position2 |-> position2,
     diffuseColor1 |-> 0, diffuseColor2 |-> 1, shadingId |-> shadingId]

LineChoices == {Line(0, 1, id) : id \in 0..2} \cup {Line(2, 1, id) : id \in 0..2}

LineSet(positions, lines) ==
    [kind |-> "lineSet", positions |-> positions,
     diffuseColors |-> TaggedVectors(300, 2, 4),
     lines |-> lines,
     shaderNames |-> <<"shader", "shaderTexture", "shaderVertexColor">>]

LineSetInputs ==
    {LineSet(TaggedVectors(100, 3, 3), lines) : lines \in SeqsUpTo(LineChoices, MaxLines) \ {<<>>}}
    \cup {LineSet(<<>>, <<>>)}

InitLineSet ==
    /\ geometry \in LineSetInputs
    /\ m_mode \in Modes
    /\ assertsEnabled \in BOOLEAN
    /\ m_sceneData = SceneData(<<>>)
    /\ points = <<>>
    /\ boundingBox = NotComputed
    /\ unit = NotComputed
    /\ Idle

NextLineSet == EncodeGeometry

SpecLineSet == InitLineSet /\ [][NextLineSet]_vars

\* point sets over three tagged positions with 1 .. MaxPoints points on the
\* positions 0 and 1, each with one of two colors
PointSetInputs ==
    {[kind |-> "pointSet", positions |-> TaggedVectors(100, 3, 3),
      diffuseColors |-> TaggedVectors(300, 2, 4), points |-> pts] :
        pts \in SeqsUpTo([position : 0..1, diffuseColor : 0..1], MaxPoints) \ {<<>>}}

\* line sets over three tagged positions with 1 .. MaxLines lines from 0 to 1,
\* from 1 to 0 or from 1 to 1, each with two different colors
ColoredLineSetInputs ==
    {LineSet(TaggedVectors(100, 3, 3), lines) :
        lines \in SeqsUpTo({[position1 |-> e[1], position2 |-> e[2], diffuseColor1 |-> c,
                             diffuseColor2 |-> 1 - c, shadingId |-> 0] :
                                e \in {<<0, 1>>, <<1, 0>>, <<1, 1>>}, c \in 0..1},
                           MaxLines) \ {<<>>}}

\* the geometries without positions and primitives
EmptyGeometries ==
    {Mesh(<<>>, <<>>, "shader"),
     LineSet(<<>>, <<>>),
     [kind |-> "pointSet", positions |-> <<>>, diffuseColors |-> <<>>, points |-> <<>>]}

InitGeometry ==
    /\ geometry \in PointSetInputs \cup ColoredLineSetInputs \cup EmptyGeometries
                      \cup {Geometries.mesh}
    /\ m_mode \in Modes
    /\ assertsEnabled \in BOOLEAN
    /\ m_sceneData = SceneData(<<>>)
    /\ points = <<>>
    /\ boundingBox = NotComputed
    /\ unit = NotComputed
    /\ Idle

NextGeometry == EncodeGeometry

SpecGeometry == InitGeometry /\ [][NextGeometry]_vars

\* PDF3DSceneProcessor::createMaterialFromShader applied to `shaderCall`
ResolveMaterial ==
    /\ shaderCall # NoShaderCall
    /\ materialOutcome = NotComputed
    /\ \E o \in createMaterialFromShader(shaderCall.shaderName, shaderCall.forceUseVertexColors) :
          /\ materialOutcome' = [done |-> TRUE, status |-> o.status, material |-> o.material]
          /\ undefinedDeref' = (undefinedDeref \/ o.ub)
    /\ UNCHANGED <<m_mode, m_sceneData, m_globalAmbientColor, m_processedNodes, assertsEnabled,
                   pc, stack, call, sceneRoot, builds, visited,
                   points, boundingBox, geometry, unit, shaderCall,
                   snapper, snapInfo, m_diffResult, differencesTreeWidget>>

\* the shaders of the material resolution: no, one or two texture bindings, each
\* flag, each alpha test function, one of two reference values and materials
ShaderInputs ==
    {[Shader(textureNames, useVertexColor, alphaTestEnabled, materialName)
         EXCEPT !.alphaTestFunction = f, !.alphaTestReference = reference] :
        textureNames \in {<<>>, <<"texture">>, <<"texture2", "texture">>},
        useVertexColor \in BOOLEAN,
        alphaTestEnabled \in BOOLEAN,
        materialName \in {"material", "material2"},
        f \in AlphaFunctions,
        reference \in {0, 5}}

\* the model source holds the drawn shader under the name "shader"
InitMaterial ==
    /\ \E shader \in ShaderInputs :
          m_sceneData = [SceneData(<<>>) EXCEPT !.shaders = [Shaders EXCEPT !.shader = shader]]
    /\ shaderCall \in [shaderName : {"shader"}, forceUseVertexColors : BOOLEAN]
    /\ materialOutcome = NotComputed
    /\ m_mode = "Solid"
    /\ assertsEnabled \in BOOLEAN
    /\ m_globalAmbientColor = <<0, 0, 0>>
    /\ m_processedNodes = {}
    /\ pc = "idle"
    /\ stack = <<>>
    /\ call = NoCall
    /\ sceneRoot = NoScene
    /\ builds = 0
    /\ visited = <<>>
    /\ undefinedDeref = FALSE
    /\ points = <<>>
    /\ boundingBox = NotComputed
    /\ geometry = Null
    /\ unit = NotComputed
    /\ OtherObjectsIdle

NextMaterial == ResolveMaterial

SpecMaterial == InitMaterial /\ [][NextMaterial]_vars

-----------------------------------------------------------------------------
\* PDFSnapInfo::addPageMediaBox, addImage, addLine

SnapPoint(type, point) == [type |-> type, point |-> point]

QLineF(p1, p2) == [p1 |-> p1, p2 |-> p2]

\* QLineF::center(): the coordinates of the inputs are even
center(line) ==
    <<(line.p1[1] + line.p2[1]) \div 2, (line.p1[2] + line.p2[2]) \div 2>>

\* a variant of addLine that adds the center point and no line
addLine_noLine(info, start, end) ==
    [info EXCEPT !.m_snapPoints = Append(@, SnapPoint("LineCenter", center(QLineF(start, end))))]

addLine(info, start, end) ==
    LET line == QLineF(start, end)
    IN  [info EXCEPT !.m_snapPoints = Append(@, SnapPoint("LineCenter", center(line))),
                     !.m_snapLines = Append(@, line)]

\* QRectF: [x, y, width, height]
topLeft(rect) == <<rect.x, rect.y>>
topRight(rect) == <<rect.x + rect.width, rect.y>>
bottomLeft(rect) == <<rect.x, rect.y + rect.height>>
bottomRight(rect) == <<rect.x + rect.width, rect.y + rect.height>>
rectCenter(rect) == <<rect.x + rect.width \div 2, rect.y + rect.height \div 2>>

addPageMediaBox(info, mediaBox) ==
    LET tl == topLeft(mediaBox)
        tr == topRight(mediaBox)
        bl == bottomLeft(mediaBox)
        br == bottomRight(mediaBox)
        inserted == [info EXCEPT !.m_snapPoints =
                        @ \o <<SnapPoint("PageCorner", tl), SnapPoint("PageCorner", tr),
                               SnapPoint("PageCorner", bl), SnapPoint("PageCorner", br),
                               SnapPoint("PageCenter", rectCenter(mediaBox))>>]
    IN  addLine(addLine(addLine(addLine(inserted, tl, tr), tr, br), br, bl), tl, bl)

\* the loop of addImage from i on (0-based)
RECURSIVE addImageLines(_, _, _)
addImageLines(info, imagePoints, i) ==
    IF i >= 4
    THEN info
    ELSE addImageLines(addLine(info, imagePoints[i + 1], imagePoints[((i + 1) % 4) + 1]),
                       imagePoints, i + 1)

addImage(info, imagePoints) ==
    LET inserted == [info EXCEPT !.m_snapPoints =
                        @ \o <<SnapPoint("ImageCorner", imagePoints[1]),
                               SnapPoint("ImageCorner", imagePoints[2]),
                               SnapPoint("ImageCorner", imagePoints[3]),
                               SnapPoint("ImageCorner", imagePoints[4]),
                               SnapPoint("ImageCenter", imagePoints[5])>>]
    IN  addImageLines(inserted, imagePoints, 0)

\* rectangles, image outlines and lines with even coordinates
MediaBoxes ==
    {[x |-> 0, y |-> 0, width |-> 4, height |-> 2], [x |-> 2, y |-> 2, width |-> 2, height |-> 4]}

ImageOutlines ==
    {<< <<0, 0>>, <<2, 0>>, <<2, 2>>, <<0, 2>>, <<1, 1>> >>,
     << <<2, 0>>, <<4, 2>>, <<2, 4>>, <<0, 2>>, <<2, 2>> >>}

LineEnds == {<< <<0, 0>>, <<2, 0>> >>, << <<0, 4>>, <<0, 0>> >>}

addPageMediaBoxCall ==
    /\ Len(snapInfo.m_snapPoints) + 9 <= MaxSnapPoints
    /\ \E mediaBox \in MediaBoxes : snapInfo' = addPageMediaBox(snapInfo, mediaBox)
    /\ UNCHANGED <<m_sceneData, m_mode, m_globalAmbientColor, m_processedNodes, assertsEnabled,
                   pc, stack, call, sceneRoot, builds, visited, undefinedDeref,
                   points, boundingBox, geometry, unit, shaderCall, materialOutcome,
                   snapper, m_diffResult, differencesTreeWidget>>

addImageCall ==
    /\ Len(snapInfo.m_snapPoints) + 9 <= MaxSnapPoints
    /\ \E imagePoints \in ImageOutlines : snapInfo' = addImage(snapInfo, imagePoints)
    /\ UNCHANGED <<m_sceneData, m_mode, m_globalAmbientColor, m_processedNodes, assertsEnabled,
                   pc, stack, call, sceneRoot, builds, visited, undefinedDeref,
                   points, boundingBox, geometry, unit, shaderCall, materialOutcome,
                   snapper, m_diffResult, differencesTreeWidget>>

addLineCall ==
    /\ Len(snapInfo.m_snapPoints) + 1 <= MaxSnapPoints
    /\ \E ends \in LineEnds : snapInfo' = addLine(snapInfo, ends[1], ends[2])
    /\ UNCHANGED <<m_sceneData, m_mode, m_globalAmbientColor, m_processedNodes, assertsEnabled,
                   pc, stack, call, sceneRoot, builds, visited, undefinedDeref,
                   points, boundingBox, geometry, unit, shaderCall, materialOutcome,
                   snapper, m_diffResult, differencesTreeWidget>>

\* a PDFSnapInfo after construction
InitSnapInfo ==
    /\ snapInfo = PDFSnapInfo
    /\ snapper = PDFSnapper
    /\ m_diffResult = Null
    /\ differencesTreeWidget = <<>>
    /\ m_sceneData = SceneData(<<>>)
    /\ m_mode = "Solid"
    /\ assertsEnabled = TRUE
    /\ points = <<>>
    /\ boundingBox = NotComputed
    /\ geometry = Null
    /\ unit = NotComputed
    /\ m_globalAmbientColor = <<0, 0, 0>>
    /\ m_processedNodes = {}
    /\ pc = "idle"
    /\ stack = <<>>
    /\ call = NoCall
    /\ sceneRoot = NoScene
    /\ builds = 0
    /\ visited = <<>>
    /\ undefinedDeref = FALSE
    /\ shaderCall = NoShaderCall
    /\ materialOutcome = NotComputed

NextSnapInfo == addPageMediaBoxCall \/ addImageCall \/ addLineCall

SpecSnapInfo == InitSnapInfo /\ [][NextSnapInfo]_vars

-----------------------------------------------------------------------------
\* PDFSnapper

Optional(value) == [has_value |-> TRUE, value |-> value]

\* PDFSnapper::isSnapped (header): m_snappedPoint.has_value()
isSnapped(s) == s.m_snappedPoint.has_value

isSnappingAllowed(s, pageIndex) ==
    (s.m_currentPage = -1) \/ (s.m_currentPage = pageIndex)

dotProduct(a, b) == a[1] * b[1] + a[2] * b[2]

\* the loop of updateSnappedPoint from snap point i on: the first snap point
\* that satisfies the condition, or std::nullopt
RECURSIVE FirstSnapPoint(_, _, _, _)
FirstSnapPoint(s, mousePoint, toleranceSquared, i) ==
    IF i > Len(s.m_snapPoints)
    THEN NullOpt
    ELSE LET snapPoint == s.m_snapPoints[i]
             difference == <<mousePoint[1] - snapPoint.viewportPoint[1],
                             mousePoint[2] - snapPoint.viewportPoint[2]>>
             distanceSquared == dotProduct(difference, difference)
         IN  IF distanceSquared < toleranceSquared /\ isSnappingAllowed(s, snapPoint.pageIndex)
             THEN Optional(snapPoint)
             ELSE FirstSnapPoint(s, mousePoint, toleranceSquared, i + 1)

\* a variant that also snaps at a distance equal to the tolerance
updateSnappedPoint_inclusive(s, mousePoint) ==
    [s EXCEPT !.m_mousePoint = mousePoint,
              !.m_snappedPoint =
                  FirstSnapPoint(s, mousePoint,
                                 s.m_snapPointTolerance * s.m_snapPointTolerance + 1, 1)]

updateSnappedPoint(s, mousePoint) ==
    LET toleranceSquared == s.m_snapPointTolerance * s.m_snapPointTolerance
    IN  [s EXCEPT !.m_mousePoint = mousePoint,
                  !.m_snappedPoint = FirstSnapPoint(s, mousePoint, toleranceSquared, 1)]

\* QTransform::map for a matrix that scales by m11 = m22 and translates by (dx, dy)
map(matrix, point) ==
    <<matrix.m11 * point[1] + matrix.dx, matrix.m11 * point[2] + matrix.dy>>

abs(x) == IF x < 0 THEN -x ELSE x

\* QLineF::length() of a line along one of the axes
length(line) == abs(line.p2[1] - line.p1[1]) + abs(line.p2[2] - line.p1[2])

\* isFuzzyComparedPointsSame is declared outside this file; on whole
\* coordinates and with a tolerance of a hundredth of the line length, two
\* points are the same when they are equal
isFuzzyComparedPointsSame(point1, point2) == point1 = point2

\* lines 168-177: the snap points of a page, mapped to the viewport
RECURSIVE PageSnapPoints(_, _, _)
PageSnapPoints(snapPoints, item, infoPoints) ==
    IF infoPoints = <<>>
    THEN snapPoints
    ELSE LET snapPoint == Head(infoPoints)
         IN  PageSnapPoints(
                 Append(snapPoints,
                        [type |-> snapPoint.type, point |-> snapPoint.point,
                         pageIndex |-> item.pageIndex,
                         viewportPoint |-> map(item.pageToDeviceMatrix, snapPoint.point)]),
                 item, Tail(infoPoints))

\* lines 183-209: the projections of the reference point onto the lines of a page
RECURSIVE LineProjections(_, _, _, _)
LineProjections(snapPoints, item, referencePoint, lines) ==
    IF lines = <<>>
    THEN snapPoints
    ELSE LET line == Head(lines)
             lineLength == length(line)
             vector == <<referencePoint[1] - line.p1[1], referencePoint[2] - line.p1[2]>>
         IN  IF lineLength = 0
             THEN \* the tangent is 0/0, no comparison with it holds
                  LineProjections(snapPoints, item, referencePoint, Tail(lines))
             ELSE LET tangentVector == <<(line.p2[1] - line.p1[1]) \div lineLength,
                                         (line.p2[2] - line.p1[2]) \div lineLength>>
                      absoluteParameter == dotProduct(vector, tangentVector)
                      projectedSnapPoint == <<line.p1[1] + absoluteParameter * tangentVector[1],
                                              line.p1[2] + absoluteParameter * tangentVector[2]>>
                      found == \E k \in 1..Len(snapPoints) :
                                  isFuzzyComparedPointsSame(projectedSnapPoint, snapPoints[k].point)
                  IN  IF absoluteParameter >= 0 /\ absoluteParameter <= lineLength /\ ~found
                      THEN LineProjections(
                               Append(snapPoints,
                                      [type |-> "GeneratedLineProjection",
                                       point |-> projectedSnapPoint,
                                       pageIndex |-> item.pageIndex,
                                       viewportPoint |-> map(item.pageToDeviceMatrix,
                                                             projectedSnapPoint)]),
                               item, referencePoint, Tail(lines))
                      ELSE LineProjections(snapPoints, item, referencePoint, Tail(lines))

\* lines 164-211: the loop over the items of the snapshot
RECURSIVE SnapshotSnapPoints(_, _, _)
SnapshotSnapPoints(s, snapPoints, items) ==
    IF items = <<>>
    THEN snapPoints
    ELSE LET item == Head(items)
         IN  IF item.compiledPage = Null
             THEN SnapshotSnapPoints(s, snapPoints, Tail(items))
             ELSE LET info == item.compiledPage
                      mapped == PageSnapPoints(snapPoints, item, info.m_snapPoints)
                  IN  SnapshotSnapPoints(
                          s,
                          IF s.m_currentPage = item.pageIndex /\ s.m_referencePoint.has_value
                          THEN LineProjections(mapped, item, s.m_referencePoint.value,
                                               info.m_snapLines)
                          ELSE mapped,
                          Tail(items))

buildSnapPoints(s, snapshot) ==
    updateSnappedPoint([s EXCEPT !.m_snapPoints = SnapshotSnapPoints(s, <<>>, snapshot.items)],
                       s.m_mousePoint)

setSnapPointTolerance(s, snapPointTolerance) ==
    [s EXCEPT !.m_snapPointTolerance = snapPointTolerance]

getSnappedPoint(s) ==
    IF isSnapped(s) THEN s.m_snappedPoint.value.viewportPoint ELSE s.m_mousePoint

setReferencePoint(s, pageIndex, pagePoint) ==
    [s EXCEPT !.m_currentPage = pageIndex, !.m_referencePoint = Optional(pagePoint)]

clearReferencePoint(s) ==
    [s EXCEPT !.m_currentPage = -1, !.m_referencePoint = NullOpt]

\* the pages of the snapshots: page 0 with a line from (0,0) to (4,0), drawn as
\* it is; page 1 with a line from (0,0) to (0,2), drawn two to the right; page
\* 1 not compiled yet
SnapshotItem(pageIndex, compiledPage, dx) ==
    [pageIndex |-> pageIndex, compiledPage |-> compiledPage,
     pageToDeviceMatrix |-> [m11 |-> 1, dx |-> dx, dy |-> 0]]

Page0 == SnapshotItem(0, addLine(PDFSnapInfo, <<0, 0>>, <<4, 0>>), 0)
Page1 == SnapshotItem(1, addLine(PDFSnapInfo, <<0, 0>>, <<0, 2>>), 2)
Page1NotCompiled == SnapshotItem(1, Null, 2)

Snapshots ==
    {[items |-> items] :
        items \in {<<>>, <<Page0>>, <<Page0, Page1>>, <<Page1, Page0>>, <<Page1NotCompiled, Page0>>}}

MousePoints == {<<2, 0>>, <<1, 0>>, <<4, 4>>}
ReferencePoints == {<<1, 1>>, <<2, 1>>, <<6, 0>>}
Tolerances == {1, 2}

setReferencePointCall ==
    /\ \E pageIndex \in {0, 1} : \E pagePoint \in ReferencePoints :
          snapper' = setReferencePoint(snapper, pageIndex, pagePoint)
    /\ UNCHANGED <<m_sceneData, m_mode, m_globalAmbientColor, m_processedNodes, assertsEnabled,
                   pc, stack, call, sceneRoot, builds, visited, undefinedDeref,
                   points, boundingBox, geometry, unit, shaderCall, materialOutcome,
                   snapInfo, m_diffResult, differencesTreeWidget>>

clearReferencePointCall ==
    /\ snapper' = clearReferencePoint(snapper)
    /\ UNCHANGED <<m_sceneData, m_mode, m_globalAmbientColor, m_processedNodes, assertsEnabled,
                   pc, stack, call, sceneRoot, builds, visited, undefinedDeref,
                   points, boundingBox, geometry, unit, shaderCall, materialOutcome,
                   snapInfo, m_diffResult, differencesTreeWidget>>

buildSnapPointsCall ==
    /\ \E snapshot \in Snapshots : snapper' = buildSnapPoints(snapper, snapshot)
    /\ UNCHANGED <<m_sceneData, m_mode, m_globalAmbientColor, m_processedNodes, assertsEnabled,
                   pc, stack, call, sceneRoot, builds, visited, undefinedDeref,
                   points, boundingBox, geometry, unit, shaderCall, materialOutcome,
                   snapInfo, m_diffResult, differencesTreeWidget>>

updateSnappedPointCall ==
    /\ \E mousePoint \in MousePoints : snapper' = updateSnappedPoint(snapper, mousePoint)
    /\ UNCHANGED <<m_sceneData, m_mode, m_globalAmbientColor, m_processedNodes, assertsEnabled,
                   pc, stack, call, sceneRoot, builds, visited, undefinedDeref,
                   points, boundingBox, geometry, unit, shaderCall, materialOutcome,
                   snapInfo, m_diffResult, differencesTreeWidget>>

setSnapPointToleranceCall ==
    /\ \E snapPointTolerance \in Tolerances :
          snapper' = setSnapPointTolerance(snapper, snapPointTolerance)
    /\ UNCHANGED <<m_sceneData, m_mode, m_globalAmbientColor, m_processedNodes, assertsEnabled,
                   pc, stack, call, sceneRoot, builds, visited, undefinedDeref,
                   points, boundingBox, geometry, unit, shaderCall, materialOutcome,
                   snapInfo, m_diffResult, differencesTreeWidget>>

\* a PDFSnapper after construction
InitSnapper == InitSnapInfo

NextSnapper ==
    \/ setReferencePointCall
    \/ clearReferencePointCall
    \/ buildSnapPointsCall
    \/ updateSnappedPointCall
    \/ setSnapPointToleranceCall

SpecSnapper == InitSnapper /\ [][NextSnapper]_vars

-----------------------------------------------------------------------------
\* DifferencesDockWidget::update, setDiffResult

\* PDFDiffResult accessors (declared outside this file); difference i is 0-based
getDifferencesCount(diffResult) == Len(diffResult.differences)
getLeftPage(diffResult, i) == diffResult.differences[i + 1].leftPage
getRightPage(diffResult, i) == diffResult.differences[i + 1].rightPage
getMessage(diffResult, i) == diffResult.differences[i + 1].message

\* a variant of the condition that looks at the left page only
StartsTopItem_leftOnly(topItems, lastLeftPageIndex, lastRightPageIndex, pageIndexLeft, pageIndexRight) ==
    lastLeftPageIndex # pageIndexLeft \/ topItems = <<>>

\* lines 112-114: the difference starts a new top level item
StartsTopItem(topItems, lastLeftPageIndex, lastRightPageIndex, pageIndexLeft, pageIndexRight) ==
    \/ lastLeftPageIndex # pageIndexLeft
    \/ lastRightPageIndex # pageIndexRight
    \/ topItems = <<>>

\* lines 117-135: the caption parts of top level item `number`
captionParts(number, pageIndexLeft, pageIndexRight) ==
    <<(<<"#", number>>)>>
        \o (IF pageIndexLeft = pageIndexRight
            THEN <<(<<"Page", pageIndexLeft + 1>>)>>
            ELSE (IF pageIndexLeft # -1 THEN <<(<<"Left", pageIndexLeft + 1>>)>> ELSE <<>>)
                     \o (IF pageIndexRight # -1
                         THEN <<(<<"Right", pageIndexRight + 1>>)>>
                         ELSE <<>>))

QTreeWidgetItem(text) == [text |-> text, data |-> Null, children |-> <<>>]

\* lines 107-148: the loop over the differences from i on
RECURSIVE UpdateLoop(_, _, _, _, _)
UpdateLoop(diffResult, i, topItems, lastLeftPageIndex, lastRightPageIndex) ==
    IF i >= getDifferencesCount(diffResult)
    THEN topItems
    ELSE LET pageIndexLeft == getLeftPage(diffResult, i)
             pageIndexRight == getRightPage(diffResult, i)
             starts == StartsTopItem(topItems, lastLeftPageIndex, lastRightPageIndex,
                                     pageIndexLeft, pageIndexRight)
             items == IF starts
                      THEN Append(topItems,
                                  QTreeWidgetItem(captionParts(Len(topItems) + 1, pageIndexLeft,
                                                               pageIndexRight)))
                      ELSE topItems
             item == [QTreeWidgetItem(getMessage(diffResult, i)) EXCEPT !.data = i]
         IN  UpdateLoop(diffResult, i + 1,
                        [items EXCEPT ![Len(items)].children = Append(@, item)],
                        IF starts THEN pageIndexLeft ELSE lastLeftPageIndex,
                        IF starts THEN pageIndexRight ELSE lastRightPageIndex)

\* the top level items of the tree after update()
update(diffResult) ==
    IF diffResult # Null /\ ~diffResult.isSame
    THEN UpdateLoop(diffResult, 0, <<>>, -1, -1)
    ELSE <<>>

\* diff results with up to MaxDifferences differences on the same page of
\* both documents or on different pages, and three with differences on no page
PagePairs == {<<0, 0>>, <<0, 1>>}

RECURSIVE PagePairSeqs(_)
PagePairSeqs(n) ==
    IF n = 0
    THEN {<<>>}
    ELSE PagePairSeqs(n - 1) \cup {Append(q, x) : q \in PagePairSeqs(n - 1), x \in PagePairs}

DiffResult(isSame, pairs) ==
    [isSame |-> isSame,
     differences |-> [k \in 1..Len(pairs) |->
                         [leftPage |-> pairs[k][1], rightPage |-> pairs[k][2],
                          message |-> <<"message", k - 1>>]]]

\* results of different documents, and two results of equal documents
DiffResults ==
    {DiffResult(FALSE, pairs) : pairs \in PagePairSeqs(MaxDifferences)}
        \cup {DiffResult(FALSE, <<(<<-1, -1>>)>>),
              DiffResult(FALSE, <<(<<-1, -1>>), <<-1, -1>>, <<0, 0>>>>),
              DiffResult(FALSE, <<(<<0, 0>>), <<-1, -1>>>>),
              DiffResult(TRUE, <<>>),
              DiffResult(TRUE, <<(<<0, 0>>)>>)}

setDiffResultCall ==
    /\ m_diffResult' \in DiffResults \cup {Null}
    /\ UNCHANGED <<m_sceneData, m_mode, m_globalAmbientColor, m_processedNodes, assertsEnabled,
                   pc, stack, call, sceneRoot, builds, visited, undefinedDeref,
                   points, boundingBox, geometry, unit, shaderCall, materialOutcome,
                   snapper, snapInfo, differencesTreeWidget>>

updateCall ==
    /\ differencesTreeWidget' = update(m_diffResult)
    /\ UNCHANGED <<m_sceneData, m_mode, m_globalAmbientColor, m_processedNodes, assertsEnabled,
                   pc, stack, call, sceneRoot, builds, visited, undefinedDeref,
                   points, boundingBox, geometry, unit, shaderCall, materialOutcome,
                   snapper, snapInfo, m_diffResult>>

\* lines 74-85: a DifferencesDockWidget after construction
InitDifferences == InitSnapInfo

NextDifferences == setDiffResultCall \/ updateCall

SpecDifferences == InitDifferences /\ [][NextDifferences]_vars

-----------------------------------------------------------------------------
\* Reading the output tree and the scene data

RECURSIVE NamesIn(_)
\* the object names of a tree of output nodes
NamesIn(n) ==
    IF n = Null \/ n = NoScene
    THEN {}
    ELSE {n.objectName} \cup UNION {NamesIn(n.children[i]) : i \in 1..Len(n.children)}

\* the object names of everything built so far in this build or held as its result
OutputNames ==
    NamesIn(sceneRoot) \cup UNION {NamesIn(stack[i].processedNode) : i \in 1..Len(stack)}

BuildFinished == pc = "idle" /\ builds > 0

TypeOf(name) == getNode(name).type

HasEmptyGeometry(name) ==
    /\ TypeOf(name) = "Model"
    /\ getGeometry(getNode(name).resourceName) # Null
    /\ isEmptyGeometry(getGeometry(getNode(name).resourceName))

HasMissingResource(name) ==
    \/ TypeOf(name) = "Model" /\ getGeometry(getNode(name).resourceName) = Null
    \/ TypeOf(name) = "Light" /\ getLight(getNode(name).resourceName) = Null

\* the k-th createNode call of this build called createNode on child i of its node
CalledChild(k, i) ==
    \E j \in (k + 1)..Len(visited) :
        /\ visited[j].caller = visited[k].name
        /\ visited[j].idx = i
        /\ visited[j].name = getNode(visited[k].name).children[i]

\* nodes reachable from the root along child names without passing a View node
RECURSIVE ReachableNoView(_, _)
ReachableNoView(frontier, seen) ==
    LET open == {n \in frontier : TypeOf(n) # "View"} \ seen
    IN  IF open = {}
        THEN seen
        ELSE ReachableNoView(
                 UNION {{getNode(n).children[i] : i \in 1..Len(getNode(n).children)} : n \in open},
                 seen \cup open)

-----------------------------------------------------------------------------
\* C1: when a build has finished, every createNode call on a Model node whose
\* resource is an empty geometry was followed by createNode calls on each of the
\* node's declared children, and a child that always yields a node (Unknown,
\* Group) is in the output tree.
C1_EmptyModelChildrenStillVisited ==
    BuildFinished =>
        \A k \in 1..Len(visited) :
            HasEmptyGeometry(visited[k].name) =>
                \A i \in 1..Len(getNode(visited[k].name).children) :
                    /\ CalledChild(k, i)
                    /\ TypeOf(getNode(visited[k].name).children[i]) \in {"Unknown", "Group"}
                          => getNode(visited[k].name).children[i] \in NamesIn(sceneRoot)

\* C2: a View node, and every node that is reachable from the root only through
\* View nodes, is never part of the build output, and no createNode call on a
\* View node ends in an error.
C2_ViewSubtreeAbsent ==
    /\ (OutputNames \cap NodeNames) \subseteq ReachableNoView({m_sceneRoot}, {})
    /\ \A k \in 1..Len(visited) :
          TypeOf(visited[k].name) = "View" => visited[k].result = "null"

\* a finished build with an output, in which a View node with a child was
\* called and the child was not
C2_Witness ==
    /\ BuildFinished
    /\ sceneRoot # Null
    /\ TypeOf("a") = "View"
    /\ getNode("a").children = <<"b">>
    /\ \E k \in 1..Len(visited) : visited[k].name = "a"
    /\ \A k \in 1..Len(visited) : visited[k].name # "b"
    /\ m_mode = "Illustration"

RECURSIVE AmbientOf(_)
\* the sum of color * intensity over the Ambient lights among the calls `calls`
AmbientOf(calls) ==
    IF calls = <<>>
    THEN <<0, 0, 0>>
    ELSE LET rest == AmbientOf(Tail(calls))
             node == getNode(Head(calls).name)
             light == getLight(node.resourceName)
         IN  IF node.type = "Light" /\ light # Null /\ light.type = "Ambient"
             THEN <<rest[1] + light.color[1] * light.intensity,
                    rest[2] + light.color[2] * light.intensity,
                    rest[3] + light.color[3] * light.intensity>>
             ELSE rest

\* C3: after any sequence of builds the accumulated ambient color is the sum
\* of color * intensity over the Ambient lights visited in the last build only.
C3_AmbientResetEachBuild ==
    BuildFinished => m_globalAmbientColor = AmbientOf(visited)

\* C4: a build terminates on every node graph because the memo of processed
\* node names guards against cycles: createNode is never entered for a node
\* name while a createNode call for that name is still active.
C4_NoNodeActiveTwice ==
    /\ \A i \in 1..Len(stack) : \A j \in 1..Len(stack) :
          stack[i].name = stack[j].name => i = j
    /\ call # NoCall => \A i \in 1..Len(stack) : stack[i].name # call

\* the name of the node that child j of an output node stands for: the child's
\* own name, or the name under the intermediate transform entity
BuiltChildName(parentName, outputNode, j) ==
    IF hasChildTransform(getNode(parentName)) /\ ~hasConstantChildTransform(getNode(parentName))
    THEN outputNode.children[j].children[1].objectName
    ELSE outputNode.children[j].objectName

\* the names of the root's children that were built to a node, in call order
RootChildrenBuilt ==
    LET built == SelectSeq(visited, LAMBDA v : v.caller = m_sceneRoot /\ v.result = "node")
    IN  [j \in 1..Len(built) |-> built[j].name]

\* C5: a Model or Light node whose resource name is not in the model source
\* yields no node and no error; after a child that built to nothing the next
\* sibling is the next createNode call, and when the build has finished the
\* root's output children are exactly its children that built to a node, in order.
C5_MissingResourceAndNullChild ==
    /\ \A k \in 1..Len(visited) :
          /\ HasMissingResource(visited[k].name) => visited[k].result = "null"
          /\ (/\ visited[k].result = "null"
              /\ visited[k].caller # NoCall
              /\ visited[k].idx < Len(getNode(visited[k].caller).children)
              /\ k < Len(visited))
                => /\ visited[k + 1].caller = visited[k].caller
                   /\ visited[k + 1].idx = visited[k].idx + 1
                   /\ visited[k + 1].name = getNode(visited[k].caller).children[visited[k].idx + 1]
          /\ (/\ visited[k].result = "null"
              /\ visited[k].caller # NoCall
              /\ visited[k].idx < Len(getNode(visited[k].caller).children)
              /\ k = Len(visited))
                => /\ pc = "building"
                   /\ Top.name = visited[k].caller
                   /\ Top.idx = visited[k].idx + 1
                   /\ call \in {NoCall, getNode(visited[k].caller).children[visited[k].idx + 1]}
    /\ (BuildFinished /\ sceneRoot # Null) =>
          /\ Len(sceneRoot.children) = Len(RootChildrenBuilt)
          /\ \A j \in 1..Len(sceneRoot.children) :
                BuiltChildName(m_sceneRoot, sceneRoot, j) = RootChildrenBuilt[j]

\* a finished build in which the root's first child had a missing resource and
\* its second child was built and attached
C5_Witness ==
    /\ BuildFinished
    /\ sceneRoot # Null
    /\ Len(visited) >= 3
    /\ HasMissingResource(visited[2].name)
    /\ visited[2].result = "null"
    /\ visited[3].caller = m_sceneRoot
    /\ visited[3].result = "node"
    /\ Len(sceneRoot.children) = 1

MeshUnsupportedModes ==
    {"Illustration", "ShadedIllustration", "ShadedWireframe", "HiddenWireframe",
     "SolidOutline", "Transparent", "TransparentWireframe", "SolidWireframe", "ShadedVertices"}

HasNonEmptyMesh(name) ==
    /\ TypeOf(name) = "Model"
    /\ getGeometry(getNode(name).resourceName) # Null
    /\ getGeometry(getNode(name).resourceName).kind = "mesh"
    /\ ~isEmptyGeometry(getGeometry(getNode(name).resourceName))

\* C6: encoding a non-empty mesh in a mode that the mesh encoder does not cover
\* aborts the build with an error; the call never completes by returning no
\* unit or some unit.
C6_UnsupportedMeshModeAborts ==
    \A k \in 1..Len(visited) :
        (HasNonEmptyMesh(visited[k].name) /\ m_mode \in MeshUnsupportedModes)
            => visited[k].result = "assert" /\ pc = "aborted"

\* the material of the node's unit is resolved (Solid mesh) from a shader,
\* material or texture name that the model source does not hold
HasMissingMaterialReference(name) ==
    /\ HasNonEmptyMesh(name)
    /\ m_mode = "Solid"
    /\ LET shaderName == getShaderName(getGeometry(getNode(name).resourceName), 0)
           shader == getShader(shaderName)
       IN  \/ shader = Null
           \/ /\ shader # Null
              /\ IF shader.textureInfos = <<>>
                 THEN ~shader.useVertexColor /\ getMaterial(shader.materialName) = Null
                 ELSE Head(shader.textureInfos).textureName \notin DOMAIN m_sceneData.textures

\* C7: when material resolution references a shader, material or texture name
\* that the model source does not hold, no undefined dereference occurs, only
\* the affected unit is absent from the output, and the build goes on.
C7_MissingShaderFailsExplicitly ==
    /\ ~undefinedDeref
    /\ \A k \in 1..Len(visited) :
          HasMissingMaterialReference(visited[k].name) => visited[k].result = "null"

-----------------------------------------------------------------------------
\* Properties of the mesh encoder (SpecMesh) and of the bounding box (SpecBBox)

\* the geometry renderer of an encoded unit
RendererOf(node) == node.components[1]

IndexAttributesOf(node) ==
    SelectSeq(RendererOf(node).attributes, LAMBDA a : a.attributeType = "IndexAttribute")

WireframeEncoded == unit.done /\ m_mode = "Wireframe" /\ ~isEmptyGeometry(geometry)

\* C8: the Wireframe encoding of a mesh with T triangles is one line-list unit
\* with one index attribute of count 6T over a buffer of 6T indices, and the
\* k-th triangle with position indices (a, b, c) gives a, b, b, c, c, a at the
\* indices 6k .. 6k+5.
C8_WireframeIndexBuffer ==
    WireframeEncoded =>
        /\ unit.status = "ok"
        /\ unit.node # Null
        /\ RendererOf(unit.node).c = "QGeometryRenderer"
        /\ RendererOf(unit.node).primitiveType = "Lines"
        /\ Len(IndexAttributesOf(unit.node)) = 1
        /\ LET T == Len(geometry.triangles)
               indexAttribute == IndexAttributesOf(unit.node)[1]
               indices == indexAttribute.buffer.data
           IN  /\ Len(indices) = 6 * T
               /\ indexAttribute.buffer.size = 6 * T * 4
               /\ indexAttribute.count = 6 * T
               /\ \A k \in 0..(T - 1) :
                     LET a == geometry.triangles[k + 1].vertices[1].positionIndex
                         b == geometry.triangles[k + 1].vertices[2].positionIndex
                         c == geometry.triangles[k + 1].vertices[3].positionIndex
                     IN  SubSeq(indices, 6 * k + 1, 6 * k + 6) = <<a, b, b, c, c, a>>

\* a Wireframe unit of two different triangles
C8_Witness ==
    /\ WireframeEncoded
    /\ unit.status = "ok"
    /\ Len(geometry.triangles) = 2
    /\ geometry.triangles[1] # geometry.triangles[2]
    /\ Len(IndexAttributesOf(unit.node)[1].buffer.data) = 12

SolidEncoded ==
    /\ unit.done
    /\ m_mode = "Solid"
    /\ ~isEmptyGeometry(geometry)
    /\ unit.status = "ok"
    /\ unit.node # Null

\* the 12 floats the claim gives a vertex: position, normal, diffuse color and
\* the first two components of the texture coordinate
ExpectedVertex(vertex) ==
    SubSeq(geometry.positions[vertex.positionIndex + 1], 1, 3)
        \o SubSeq(geometry.normals[vertex.normalIndex + 1], 1, 3)
        \o SubSeq(geometry.diffuseColors[vertex.diffuseColorIndex + 1], 1, 4)
        \o SubSeq(geometry.textureCoords[vertex.textureCoordIndex + 1], 1, 2)

\* C9: the Solid encoding of a mesh with T triangles is a triangle-list unit of
\* 3T vertices of 12 consecutive floats each, in the order position(3),
\* normal(3), diffuse color(4), texture coordinate(2); the buffer has 3T*48
\* bytes, the four attributes share it with byte stride 48, count 3T and byte
\* offsets 0, 12, 24, 40, and the floats written fit into the buffer. A mesh
\* whose shader resolves is always encoded.
C9_SolidVertexLayout ==
    /\ (/\ unit.done
        /\ m_mode = "Solid"
        /\ ~isEmptyGeometry(geometry)
        /\ getShaderName(geometry, 0) \in {"shader", "shaderTexture"})
          => unit.status = "ok" /\ unit.node # Null
    /\ SolidEncoded =>
          LET T == Len(geometry.triangles)
              attributes == RendererOf(unit.node).attributes
              vertexBuffer == attributes[1].buffer
              floats == vertexBuffer.data
          IN  /\ RendererOf(unit.node).primitiveType = "Triangles"
              /\ Len(attributes) = 4
              /\ \A i \in 1..4 :
                    /\ attributes[i].buffer = vertexBuffer
                    /\ attributes[i].byteStride = 48
                    /\ attributes[i].count = 3 * T
              /\ [i \in 1..4 |-> attributes[i].name]
                    = <<"vertexPosition", "vertexNormal", "vertexColor", "vertexTexCoord">>
              /\ [i \in 1..4 |-> attributes[i].byteOffset] = <<0, 12, 24, 40>>
              /\ [i \in 1..4 |-> attributes[i].vertexSize] = <<3, 3, 4, 2>>
              /\ vertexBuffer.size = 3 * T * 48
              /\ Len(floats) = 3 * T * 12
              /\ Len(floats) * 4 <= vertexBuffer.size
              /\ \A k \in 0..(T - 1) : \A v \in 0..2 :
                    SubSeq(floats, (3 * k + v) * 12 + 1, (3 * k + v) * 12 + 12)
                        = ExpectedVertex(geometry.triangles[k + 1].vertices[v + 1])

\* a Solid unit of two triangles that both use the position with index 0
C9_Witness ==
    /\ SolidEncoded
    /\ ~undefinedDeref
    /\ Len(geometry.triangles) = 2
    /\ geometry.triangles[1].vertices[1].positionIndex = 0
    /\ geometry.triangles[2].vertices[3].positionIndex = 0
    /\ RendererOf(unit.node).attributes[1].buffer.size = 288

-----------------------------------------------------------------------------
\* C11: order independence of the bounding box

\* the least / greatest value of component c over the points
LeastComponent(c) ==
    CHOOSE x \in {points[i][c] : i \in 1..Len(points)} :
        \A i \in 1..Len(points) : x <= points[i][c]
GreatestComponent(c) ==
    CHOOSE x \in {points[i][c] : i \in 1..Len(points)} :
        \A i \in 1..Len(points) : x >= points[i][c]

\* C11: for a non-empty point list the computed min and max are the
\* component-wise minimum and maximum over all points, and getBoundingBox
\* gives the same box for every permutation of the list.
C11_BoundingBoxIsComponentwiseExtremum ==
    (boundingBox.done /\ points # <<>>) =>
        /\ boundingBox.box.m_min = [c \in 1..3 |-> LeastComponent(c)]
        /\ boundingBox.box.m_max = [c \in 1..3 |-> GreatestComponent(c)]
        /\ \A f \in Permutations(1..Len(points)) :
              getBoundingBox([i \in 1..Len(points) |-> points[f[i]]]) = boundingBox.box

\* the box of two points of which neither is the minimum or the maximum corner
C11_Witness ==
    /\ boundingBox.done
    /\ Len(points) = 2
    /\ points[1] = <<1, -1, 0>>
    /\ points[2] = <<-1, 1, 1>>
    /\ boundingBox.box = PDF3DBoundingBox(<<-1, -1, 0>>, <<1, 1, 1>>)

-----------------------------------------------------------------------------
\* C12, C13: lights

IsAmbientLightNode(name) ==
    /\ TypeOf(name) = "Light"
    /\ getLight(getNode(name).resourceName) # Null
    /\ getLight(getNode(name).resourceName).type = "Ambient"

\* the Ambient lights of the createNode calls of this build, in call order
AmbientLightsVisited ==
    LET calls == SelectSeq(visited, LAMBDA v : IsAmbientLightNode(v.name))
    IN  [i \in 1..Len(calls) |-> getLight(getNode(calls[i].name).resourceName)]

RECURSIVE FoldAmbient(_, _)
\* the Ambient case of createLightNode applied to the lights one after the other
FoldAmbient(lights, ambient) ==
    IF lights = <<>>
    THEN ambient
    ELSE FoldAmbient(Tail(lights), AddAmbient(ambient, Head(lights)))

\* C12: the ambient color accumulated by a first build is the one that the
\* Ambient lights of the build give when they are processed in any order.
C12_AmbientOrderIndependent ==
    (BuildFinished /\ builds = 1) =>
        \A f \in Permutations(1..Len(AmbientLightsVisited)) :
            FoldAmbient([i \in 1..Len(AmbientLightsVisited) |-> AmbientLightsVisited[f[i]]],
                        <<0, 0, 0>>) = m_globalAmbientColor

\* a first build that met two different Ambient lights
C12_Witness ==
    /\ BuildFinished
    /\ builds = 1
    /\ Len(AmbientLightsVisited) = 2
    /\ AmbientLightsVisited[1] = Lights.ambient2
    /\ AmbientLightsVisited[2] = Lights.ambient
    /\ m_globalAmbientColor = <<6, 4, 7>>

\* the light component the claim gives a Directional, Point or Spot light
ExpectedLight(light) ==
    CASE light.type = "Directional" ->
            [c |-> "QDirectionalLight", color |-> light.color, intensity |-> light.intensity]
      [] light.type = "Point" ->
            [c |-> "QPointLight", color |-> light.color, intensity |-> light.intensity,
             constantAttenuation |-> light.attenuation[1],
             linearAttenuation |-> light.attenuation[2],
             quadraticAttenuation |-> light.attenuation[3]]
      [] light.type = "Spot" ->
            [c |-> "QSpotLight", color |-> light.color, intensity |-> light.intensity,
             constantAttenuation |-> light.attenuation[1],
             linearAttenuation |-> light.attenuation[2],
             quadraticAttenuation |-> light.attenuation[3],
             cutOffAngle |-> light.spotAngle]

\* a createNode call on a Light node whose light resource exists is pending
LightCallPending ==
    /\ pc = "building"
    /\ call # NoCall
    /\ TypeOf(call) = "Light"
    /\ getLight(getNode(call).resourceName) # Null

\* the step of a pending createNode call on a light: its effect on the two outputs
LightStep ==
    LET light == getLight(getNode(call).resourceName)
    IN  IF light.type = "Ambient"
        THEN /\ visited'[Len(visited')].result = "null"
             /\ Len(stack') = Len(stack)
             /\ \A i \in 1..Len(stack) : stack'[i].processedNode = stack[i].processedNode
             /\ m_globalAmbientColor' =
                    [c \in 1..3 |-> m_globalAmbientColor[c] + light.color[c] * light.intensity]
        ELSE /\ visited'[Len(visited')].result = "node"
             /\ m_globalAmbientColor' = m_globalAmbientColor
             /\ Len(stack') = Len(stack) + 1
             /\ stack'[Len(stack')].processedNode.kind = "QEntity"
             /\ stack'[Len(stack')].processedNode.objectName = call
             /\ stack'[Len(stack')].processedNode.components = <<ExpectedLight(light)>>

\* C13: every createNode call on a light contributes to exactly one output: an
\* Ambient light yields no node and adds color * intensity to each component
\* of the ambient color; a Directional, Point or Spot light yields one entity
\* with exactly one light component (Point and Spot with the three attenuation
\* terms, Spot also with the cut-off angle) and leaves the ambient color as it is.
C13_LightContributesToOneOutput ==
    [][LightCallPending => LightStep]_vars

\* a finished build whose output holds a spot light entity, after an Ambient
\* light was added to the ambient color
C13_Witness ==
    /\ BuildFinished
    /\ builds = 1
    /\ sceneRoot # Null
    /\ Len(sceneRoot.children) = 1
    /\ sceneRoot.children[1].components = <<ExpectedLight(Lights.spot)>>
    /\ Len(AmbientLightsVisited) = 1
    /\ m_globalAmbientColor = <<2, 4, 6>>

-----------------------------------------------------------------------------
\* C14: line sets in the solid modes (SpecLineSet)

LineSetSolidFamily ==
    {"ShadedWireframe", "HiddenWireframe", "SolidOutline", "Transparent",
     "TransparentWireframe", "Solid", "SolidWireframe"}

LineSetSolidEncoded ==
    /\ unit.done
    /\ geometry.kind = "lineSet"
    /\ geometry.lines # <<>>
    /\ m_mode \in LineSetSolidFamily

\* the shading ids of the lines of the geometry
LineShadingIds == {geometry.lines[k].shadingId : k \in 1..Len(geometry.lines)}

\* the end points of the lines with the shading id `id`, in line order
LinePositionsOf(id) ==
    LET lines == SelectSeq(geometry.lines, LAMBDA l : l.shadingId = id)
    IN  FlattenSeq([k \in 1..Len(lines) |->
            geometry.positions[lines[k].position1 + 1]
                \o geometry.positions[lines[k].position2 + 1]])

\* `node` is a line-list unit of exactly the lines of the shading id `id`,
\* with a material resolved from the shader of that id
IsLineUnitOf(node, id) ==
    /\ node.kind = "QEntity"
    /\ node.children = <<>>
    /\ Len(node.components) = 2
    /\ node.components[1].c = "QGeometryRenderer"
    /\ node.components[1].primitiveType = "Lines"
    /\ node.components[1].attributes[1].name = "vertexPosition"
    /\ node.components[1].attributes[1].buffer.data = LinePositionsOf(id)
    /\ node.components[1].attributes[1].count * 3 = Len(LinePositionsOf(id))
    /\ node.components[2] \in
          {m.material : m \in createMaterialFromShader(geometry.shaderNames[id + 1], TRUE)}

\* the units of the encoded line set: the node itself, or the children of the composite
LineUnits ==
    IF Cardinality(LineShadingIds) = 1 THEN <<unit.node>> ELSE unit.node.children

\* C14: in the solid modes a line set whose lines carry k distinct shading ids
\* is encoded as k line-list units, one per shading id (in ascending order of
\* the ids), each with exactly the lines of its id and a material resolved
\* from the shader of that id; for k = 1 the unit itself is returned, for
\* k >= 2 a composite without components whose children are these k units.
C14_LineSetUnitPerShadingId ==
    LineSetSolidEncoded =>
        /\ unit.status = "ok"
        /\ unit.node # Null
        /\ Len(LineUnits) = Cardinality(LineShadingIds)
        /\ Cardinality(LineShadingIds) >= 2 =>
              unit.node.kind = "QEntity" /\ unit.node.components = <<>>
        /\ \A id \in LineShadingIds :
              LET rank == Cardinality({other \in LineShadingIds : other <= id})
              IN  IsLineUnitOf(LineUnits[rank], id)

\* a line set of three lines with the shading ids 2, 0, 2, encoded as a
\* composite of two units
C14_Witness ==
    /\ LineSetSolidEncoded
    /\ unit.status = "ok"
    /\ Len(geometry.lines) = 3
    /\ [k \in 1..3 |-> geometry.lines[k].shadingId] = <<2, 0, 2>>
    /\ Len(unit.node.children) = 2
    /\ unit.node.children[2].components[1].attributes[1].count = 4

-----------------------------------------------------------------------------
\* C15 - C17: material resolution (SpecMaterial)

\* the shader the material was resolved from, and the resolved material
ResolvedShader == m_sceneData.shaders[shaderCall.shaderName]
ResolvedMaterial == materialOutcome.material

HasTextureBinding == ResolvedShader.textureInfos # <<>>
WantsVertexColor == ResolvedShader.useVertexColor \/ shaderCall.forceUseVertexColors

\* C15: a shader with at least one texture binding resolves to a textured
\* material over the image of the first binding, whatever the vertex-color
\* flag and forceUseVertexColors are; otherwise a shader with the vertex-color
\* flag, or forceUseVertexColors, resolves to a per-vertex-color material;
\* otherwise the material is flat and carries the ambient, diffuse and
\* specular colors of the material the shader names.
C15_MaterialDecisionOrder ==
    materialOutcome.done =>
        /\ materialOutcome.status = "ok"
        /\ IF HasTextureBinding
           THEN /\ ResolvedMaterial.c = "QDiffuseSpecularMaterial"
                /\ ResolvedMaterial.diffuse =
                      [kind |-> "QTexture2D",
                       image |-> m_sceneData.textures[ResolvedShader.textureInfos[1].textureName]]
                /\ ResolvedMaterial.ambient = QtTransparent
                /\ ResolvedMaterial.specular = QtTransparent
           ELSE IF WantsVertexColor
           THEN ResolvedMaterial.c = "QPerVertexColorMaterial"
           ELSE /\ ResolvedMaterial.c = "QDiffuseSpecularMaterial"
                /\ ResolvedMaterial.ambient =
                      m_sceneData.materials[ResolvedShader.materialName].ambientColor
                /\ ResolvedMaterial.diffuse =
                      m_sceneData.materials[ResolvedShader.materialName].diffuseColor
                /\ ResolvedMaterial.specular =
                      m_sceneData.materials[ResolvedShader.materialName].specularColor

\* a shader with two texture bindings and the vertex-color flag, resolved with
\* forceUseVertexColors to a material textured with the first binding
C15_Witness ==
    /\ materialOutcome.done
    /\ Len(ResolvedShader.textureInfos) = 2
    /\ ResolvedShader.useVertexColor
    /\ shaderCall.forceUseVertexColors
    /\ ResolvedMaterial.diffuse = [kind |-> "QTexture2D", image |-> Textures.texture2]

\* the alpha-test states among the render states of the resolved material
AlphaTestsAttached ==
    SelectSeq(ResolvedMaterial.renderStates, LAMBDA state : state.s = "QAlphaTest")

\* the renderer's function of the same name for each comparison function of a shader
RendererAlphaFunction(f) ==
    CASE f = "NEVER" -> "Never"
      [] f = "LESS" -> "Less"
      [] f = "EQUAL" -> "Equal"
      [] f = "LEQUAL" -> "LessOrEqual"
      [] f = "GREATER" -> "Greater"
      [] f = "NOT_EQUAL" -> "NotEqual"
      [] f = "GEQUAL" -> "GreaterOrEqual"
      [] f = "ALWAYS" -> "Always"

\* C16: the resolved material (flat, per-vertex-color or textured) has an
\* alpha-test state if and only if the alpha-test flag of the shader is set,
\* and then exactly one, with the reference value of the shader and the
\* renderer's function of the same name as the shader's comparison function;
\* different comparison functions give different renderer functions.
C16_AlphaTestIffFlag ==
    materialOutcome.done =>
        /\ materialOutcome.status = "ok"
        /\ Len(AlphaTestsAttached) = (IF ResolvedShader.alphaTestEnabled THEN 1 ELSE 0)
        /\ ResolvedShader.alphaTestEnabled =>
              /\ AlphaTestsAttached[1].referenceValue = ResolvedShader.alphaTestReference
              /\ AlphaTestsAttached[1].alphaFunction =
                    RendererAlphaFunction(ResolvedShader.alphaTestFunction)
        /\ \A f \in AlphaFunctions : \A g \in AlphaFunctions :
              setAlphaFunction(f) = setAlphaFunction(g) => f = g

\* a per-vertex-color material with the alpha test LEQUAL against 0
C16_Witness ==
    /\ materialOutcome.done
    /\ ResolvedMaterial.c = "QPerVertexColorMaterial"
    /\ ResolvedShader.alphaTestEnabled
    /\ ResolvedShader.alphaTestFunction = "LEQUAL"
    /\ ResolvedShader.alphaTestReference = 0
    /\ AlphaTestsAttached =
          <<[s |-> "QAlphaTest", referenceValue |-> 0, alphaFunction |-> "LessOrEqual"]>>

\* C17: a flat material and a textured material have alpha blending enabled
\* if and only if the alpha-test flag of the shader is set.
C17_AlphaBlendingIffFlag ==
    (materialOutcome.done /\ (HasTextureBinding \/ ~WantsVertexColor)) =>
        /\ materialOutcome.status = "ok"
        /\ ResolvedMaterial.c = "QDiffuseSpecularMaterial"
        /\ ResolvedMaterial.alphaBlending = ResolvedShader.alphaTestEnabled

\* a flat material with alpha blending, of a shader with the alpha-test flag
C17_Witness ==
    /\ materialOutcome.done
    /\ ~HasTextureBinding
    /\ ~WantsVertexColor
    /\ ResolvedShader.alphaTestEnabled
    /\ ResolvedMaterial.alphaBlending
    /\ ResolvedMaterial.ambient = Materials.material2.ambientColor

-----------------------------------------------------------------------------
\* C18..C20: child transforms of createNode (Spec)

HasPerChildTransform(name) ==
    hasChildTransform(getNode(name)) /\ ~hasConstantChildTransform(getNode(name))

\* a createNode call below the root has run through its children and returns its node
ChildReturnsNode ==
    /\ pc = "building"
    /\ call = NoCall
    /\ Len(stack) > 1
    /\ Top.idx > Len(ChildrenOf(Top))

\* the returned node became the last child of the caller's node: inside one new
\* entity that holds the matrix registered for the child's name when the caller's
\* node has per-child transforms, and as it is otherwise
ChildAttachedStep ==
    LET parent == stack[Len(stack) - 1]
        before == parent.processedNode.children
        after == stack'[Len(stack')].processedNode.children
    IN  /\ Len(stack') = Len(stack) - 1
        /\ stack'[Len(stack')].name = parent.name
        /\ Len(after) = Len(before) + 1
        /\ SubSeq(after, 1, Len(before)) = before
        /\ after[Len(after)] =
              IF HasPerChildTransform(parent.name)
              THEN [kind |-> "QEntity", objectName |-> "",
                    components |-> <<[c |-> "QTransform",
                                      matrix |-> getNode(parent.name).childTransform
                                                     .matrices[Top.name]]>>,
                    children |-> <<Top.processedNode>>]
              ELSE Top.processedNode

\* a createNode call on a child is about to run
ChildCallPending ==
    /\ pc = "building"
    /\ call # NoCall
    /\ stack # <<>>

\* when the call came back with no node, the nodes of all callers are as before
NullChildStep ==
    visited'[Len(visited')].result = "null" =>
        /\ Len(stack') = Len(stack)
        /\ \A i \in 1..Len(stack) : stack'[i].processedNode = stack[i].processedNode

\* C18: a child that builds to a node is attached to its parent's node under
\* exactly one intermediate transform entity, holding the matrix registered for
\* the child's name, when the parent has per-child transforms, and directly
\* when it has none; a child that builds to nothing adds nothing to the parent.
C18_PerChildTransformWrapsEachChild ==
    [][/\ ChildReturnsNode => ChildAttachedStep
       /\ ChildCallPending => NullChildStep]_vars

\* a finished build of an Unknown root with per-child transforms whose first
\* child built to nothing: its only output child is the wrapper of child b
C18_Witness ==
    /\ BuildFinished
    /\ sceneRoot # Null
    /\ TypeOf(m_sceneRoot) = "Unknown"
    /\ HasPerChildTransform(m_sceneRoot)
    /\ getNode(m_sceneRoot).children = <<"a", "b">>
    /\ \E k \in 1..Len(visited) : visited[k].name = "a" /\ visited[k].result = "null"
    /\ Len(sceneRoot.children) = 1
    /\ sceneRoot.children[1].components = <<QTransform(<<"M", "r", "b">>)>>
    /\ Len(sceneRoot.children[1].children) = 1
    /\ sceneRoot.children[1].children[1].objectName = "b"

\* the output node holds a transform with this matrix
CarriesTransform(outputNode, matrix) ==
    \E i \in 1..Len(outputNode.components) :
        outputNode.components[i] = [c |-> "QTransform", matrix |-> matrix]

\* C19: the output node of every source node that declares a constant child
\* transform, whatever its type, carries that constant matrix.
C19_ConstantTransformCaptured ==
    \A i \in 1..Len(stack) :
        hasConstantChildTransform(getNode(stack[i].name)) =>
            CarriesTransform(stack[i].processedNode,
                             getNode(stack[i].name).childTransform.matrix)

\* C20: the output node of a Group node is an entity with exactly the transform
\* of the constant matrix when the Group has a constant child transform, and a
\* plain node without components otherwise; the output node of an Unknown node
\* is a plain node without components; a createNode call on a Group or an
\* Unknown node always comes back with a node.
C20_StructuralNodeDispatch ==
    /\ \A i \in 1..Len(stack) :
          LET name == stack[i].name
              outputNode == stack[i].processedNode
          IN  /\ (TypeOf(name) = "Group" /\ getNode(name).childTransform.kind = "constant") =>
                    /\ outputNode.kind = "QEntity"
                    /\ outputNode.components =
                          <<[c |-> "QTransform", matrix |-> getNode(name).childTransform.matrix]>>
              /\ (TypeOf(name) = "Group" /\ getNode(name).childTransform.kind # "constant") =>
                    /\ outputNode.kind = "QNode"
                    /\ outputNode.components = <<>>
              /\ TypeOf(name) = "Unknown" =>
                    /\ outputNode.kind = "QNode"
                    /\ outputNode.components = <<>>
    /\ \A k \in 1..Len(visited) :
          TypeOf(visited[k].name) \in {"Group", "Unknown"} => visited[k].result = "node"

\* while a Group root with a constant child transform is built, its entity
\* holds the matrix, and the plain nodes of a Group child with per-child
\* transforms and of an Unknown grandchild are on the stack
C20_Witness ==
    /\ Len(stack) = 3
    /\ TypeOf(stack[1].name) = "Group"
    /\ getNode(stack[1].name).childTransform.kind = "constant"
    /\ stack[1].processedNode.components = <<QTransform(<<"M", "r">>)>>
    /\ TypeOf(stack[2].name) = "Group"
    /\ getNode(stack[2].name).childTransform.kind = "perChild"
    /\ stack[2].processedNode.kind = "QNode"
    /\ TypeOf(stack[3].name) = "Unknown"
    /\ stack[3].processedNode.kind = "QNode"

-----------------------------------------------------------------------------
\* C21, C22: the corners and indices of the bounding box units (SpecBBox)

\* the wire box and the solid box among the units of a bounding-box mode
BoxUnits(primitiveType) ==
    IF ~unit.done \/ unit.node = Null \/ m_mode \notin BoundingBoxModes
    THEN {}
    ELSE LET candidates ==
                 IF m_mode = "TransparentBoundingBoxOutline"
                 THEN {unit.node.children[j] : j \in 1..Len(unit.node.children)}
                 ELSE {unit.node}
         IN  {n \in candidates : RendererOf(n).primitiveType = primitiveType}

BoxCornerNumbers == 0..7

\* which of min (0) and max (1) corner i takes in x, y and z
CornerSide(i) ==
    <<IF i % 4 \in {1, 2} THEN 1 ELSE 0,
      IF i % 4 \in {2, 3} THEN 1 ELSE 0,
      IF i >= 4 THEN 1 ELSE 0>>

\* the position of corner i in the vertex buffer of a box unit
EncodedCorner(node, i) ==
    LET data == RendererOf(node).attributes[1].buffer.data
    IN  <<data[3 * i + 1], data[3 * i + 2], data[3 * i + 3]>>

\* the corners have the numbering of CornerSide over the box of the points
CornersNumbered(node) ==
    /\ Len(RendererOf(node).attributes[1].buffer.data) = 24
    /\ \A i \in BoxCornerNumbers : \A c \in 1..3 :
          EncodedCorner(node, i)[c] =
              IF CornerSide(i)[c] = 1 THEN GreatestComponent(c) ELSE LeastComponent(c)

EncodedIndices(node) == IndexAttributesOf(node)[1].buffer.data

DifferingSides(i, j) == {c \in 1..3 : CornerSide(i)[c] # CornerSide(j)[c]}

ExpectedWireEdges ==
    {{i, (i + 1) % 4} : i \in 0..3} \cup {{4 + i, 4 + ((i + 1) % 4)} : i \in 0..3}
        \cup {{i, i + 4} : i \in 0..3}

\* C21: the wire bounding box has 8 corners, 0..3 on the min-Z face as
\* (min,min), (max,min), (max,max), (min,max) in (x,y) and 4..7 likewise on
\* the max-Z face, and exactly 12 distinct edges: the two rings and the four
\* verticals i to i+4; every edge joins corners that differ in one coordinate.
C21_WireBoxCornersAndEdges ==
    \A node \in BoxUnits("Lines") :
        LET indices == EncodedIndices(node)
            edges == {{indices[2 * k + 1], indices[2 * k + 2]} : k \in 0..11}
        IN  /\ CornersNumbered(node)
            /\ Len(IndexAttributesOf(node)) = 1
            /\ Len(indices) = 24
            /\ IndexAttributesOf(node)[1].count = 24
            /\ edges = ExpectedWireEdges
            /\ Cardinality(edges) = 12
            /\ \A k \in 0..11 :
                  Cardinality(DifferingSides(indices[2 * k + 1], indices[2 * k + 2])) = 1
            /\ \A k \in 0..11 :
                  (\A c \in 1..3 : LeastComponent(c) < GreatestComponent(c)) =>
                      Cardinality({c \in 1..3 :
                          EncodedCorner(node, indices[2 * k + 1])[c] #
                          EncodedCorner(node, indices[2 * k + 2])[c]}) = 1

\* the wire box of two points that span the cube from (-1,-1,-1) to (1,1,1)
C21_Witness ==
    /\ unit.done
    /\ m_mode = "BoundingBox"
    /\ points = << <<1, -1, 1>>, <<-1, 1, -1>> >>
    /\ BoxUnits("Lines") = {unit.node}
    /\ EncodedCorner(unit.node, 2) = <<1, 1, -1>>
    /\ EncodedCorner(unit.node, 7) = <<-1, 1, 1>>

\* the corners of the face of the box on which coordinate c is at `side`
BoxFace(c, side) == {i \in BoxCornerNumbers : CornerSide(i)[c] = side}

BoxFaces == {BoxFace(c, side) : c \in 1..3, side \in {0, 1}}

\* C22: the solid bounding box has exactly 12 triangles over the same corner
\* numbering; every triangle has its three corners on one face, and every one
\* of the 6 faces has exactly 2 triangles, which together use its four corners
\* and share a diagonal of it.
C22_SolidBoxTwoTrianglesPerFace ==
    \A node \in BoxUnits("Triangles") :
        LET indices == EncodedIndices(node)
            corners(k) == {indices[3 * k + 1], indices[3 * k + 2], indices[3 * k + 3]}
            on(face) == {k \in 0..11 : corners(k) \subseteq face}
        IN  /\ CornersNumbered(node)
            /\ Len(indices) = 36
            /\ IndexAttributesOf(node)[1].count = 36
            /\ Cardinality(BoxFaces) = 6
            /\ \A k \in 0..11 :
                  /\ Cardinality(corners(k)) = 3
                  /\ \E face \in BoxFaces : corners(k) \subseteq face
            /\ \A face \in BoxFaces :
                  /\ Cardinality(on(face)) = 2
                  /\ UNION {corners(k) : k \in on(face)} = face
                  /\ \E i \in face : \E j \in face :
                        /\ Cardinality(DifferingSides(i, j)) = 2
                        /\ \A k \in on(face) : {i, j} \subseteq corners(k)

\* the solid box and the wire box of the outline mode over a one-point box
C22_Witness ==
    /\ m_mode = "TransparentBoundingBoxOutline"
    /\ points = << <<0, 1, -1>> >>
    /\ Cardinality(BoxUnits("Triangles")) = 1
    /\ Cardinality(BoxUnits("Lines")) = 1
    /\ \A node \in BoxUnits("Triangles") : EncodedCorner(node, 6) = <<0, 1, -1>>

-----------------------------------------------------------------------------
\* C23..C25: colored vertices and empty geometries (SpecGeometry)

ColoredPointModes ==
    {"ShadedWireframe", "HiddenWireframe", "SolidOutline", "Transparent",
     "TransparentWireframe", "Solid", "SolidWireframe", "ShadedVertices"}

\* the RGB color of vertex i (0-based) in the color buffer of a point-list unit
EncodedColor(node, i) ==
    LET data == RendererOf(node).attributes[2].buffer.data
    IN  <<data[3 * i + 1], data[3 * i + 2], data[3 * i + 3]>>

\* one point-list unit with a position and a color attribute of n vertices each
IsColoredPointList(node, n) ==
    /\ node.kind = "QEntity"
    /\ node.children = <<>>
    /\ RendererOf(node).primitiveType = "Points"
    /\ Len(RendererOf(node).attributes) = 2
    /\ RendererOf(node).attributes[1].name = "vertexPosition"
    /\ RendererOf(node).attributes[1].count = n
    /\ RendererOf(node).attributes[2].name = "vertexColor"
    /\ RendererOf(node).attributes[2].vertexSize = 3
    /\ RendererOf(node).attributes[2].count = n
    /\ Len(RendererOf(node).attributes[2].buffer.data) = 3 * n

RgbOf(color) == <<color[1], color[2], color[3]>>

\* the place in the list of the first point / line that touches vertex i (0 if none)
FirstPointAt(i) ==
    LET touching == {k \in 1..Len(geometry.points) : geometry.points[k].position = i}
    IN  IF touching = {} THEN 0 ELSE CHOOSE k \in touching : \A l \in touching : k <= l

FirstLineAt(i) ==
    LET touching == {k \in 1..Len(geometry.lines) :
                        geometry.lines[k].position1 = i \/ geometry.lines[k].position2 = i}
    IN  IF touching = {} THEN 0 ELSE CHOOSE k \in touching : \A l \in touching : k <= l

\* C23: in the Solid/Shaded modes a point set with N positions is one
\* point-list unit with N RGB colors; the color of vertex i is the diffuse
\* color of the first point in the list that touches vertex i, and black when
\* no point touches it.
C23_PointSetVertexColors ==
    (unit.done /\ geometry.kind = "pointSet" /\ geometry.points # <<>>
        /\ m_mode \in ColoredPointModes) =>
        /\ unit.status = "ok"
        /\ unit.node # Null
        /\ IsColoredPointList(unit.node, Len(geometry.positions))
        /\ \A i \in 0..(Len(geometry.positions) - 1) :
              EncodedColor(unit.node, i) =
                  IF FirstPointAt(i) = 0
                  THEN <<0, 0, 0>>
                  ELSE RgbOf(geometry.diffuseColors[
                                 geometry.points[FirstPointAt(i)].diffuseColor + 1])

\* two points of different colors on vertex 0: the color of the first one,
\* and black for the vertices 1 and 2
C23_Witness ==
    /\ unit.done
    /\ geometry.kind = "pointSet"
    /\ m_mode = "Solid"
    /\ geometry.points = <<[position |-> 0, diffuseColor |-> 1],
                           [position |-> 0, diffuseColor |-> 0]>>
    /\ EncodedColor(unit.node, 0) = <<310, 311, 312>>
    /\ EncodedColor(unit.node, 1) = <<0, 0, 0>>
    /\ EncodedColor(unit.node, 2) = <<0, 0, 0>>

\* C24: in ShadedVertices mode a line set with N positions is one point-list
\* unit with N RGB colors; the color of vertex i comes from the first line that
\* touches vertex i: its diffuseColor1 when its position1 is i, its
\* diffuseColor2 when its position2 is i (the latter when both are i), and
\* black when no line touches vertex i.
C24_LineSetVertexColors ==
    (unit.done /\ geometry.kind = "lineSet" /\ geometry.lines # <<>>
        /\ m_mode = "ShadedVertices") =>
        /\ unit.status = "ok"
        /\ unit.node # Null
        /\ IsColoredPointList(unit.node, Len(geometry.positions))
        /\ \A i \in 0..(Len(geometry.positions) - 1) :
              EncodedColor(unit.node, i) =
                  IF FirstLineAt(i) = 0
                  THEN <<0, 0, 0>>
                  ELSE LET line == geometry.lines[FirstLineAt(i)]
                       IN  RgbOf(geometry.diffuseColors[
                                     (IF line.position2 = i
                                      THEN line.diffuseColor2
                                      ELSE line.diffuseColor1) + 1])

\* a line from 1 to 0 and then a line from 0 to 1 with the colors swapped:
\* vertex 0 has the second color of the first line, vertex 1 its first color
C24_Witness ==
    /\ unit.done
    /\ geometry.kind = "lineSet"
    /\ m_mode = "ShadedVertices"
    /\ Len(geometry.lines) = 2
    /\ geometry.lines[1] = [position1 |-> 1, position2 |-> 0, diffuseColor1 |-> 0,
                            diffuseColor2 |-> 1, shadingId |-> 0]
    /\ geometry.lines[2] = [position1 |-> 0, position2 |-> 1, diffuseColor1 |-> 0,
                            diffuseColor2 |-> 1, shadingId |-> 0]
    /\ EncodedColor(unit.node, 0) = <<310, 311, 312>>
    /\ EncodedColor(unit.node, 1) = <<300, 301, 302>>
    /\ EncodedColor(unit.node, 2) = <<0, 0, 0>>

\* C25: an empty mesh, point set or line set yields no unit and no error in
\* every visualization mode, with and without assertions.
C25_EmptyGeometryYieldsNothing ==
    (unit.done /\ geometry \in EmptyGeometries) =>
        /\ unit.status = "ok"
        /\ unit.node = Null
        /\ ~undefinedDeref

\* an empty mesh in a mode without a mesh encoding, with assertions: no unit
C25_Witness ==
    /\ unit.done
    /\ unit.node = Null
    /\ unit.status = "ok"
    /\ assertsEnabled
    /\ geometry.kind = "mesh"
    /\ geometry.positions = <<>>
    /\ m_mode = "Illustration"

-----------------------------------------------------------------------------
\* C26: the order of the output children (Spec)

IsTransformWrapper(outputNode) ==
    /\ outputNode.objectName = ""
    /\ Len(outputNode.components) = 1
    /\ outputNode.components[1].c = "QTransform"
    /\ Len(outputNode.children) = 1

\* the children of an output node that stand for child names of its source
\* node: named nodes and per-child transform wrappers (the units of a
\* geometry have no name and no transform)
NodeChildren(outputNode) ==
    SelectSeq(outputNode.children,
              LAMBDA child : child.objectName # "" \/ IsTransformWrapper(child))

ChildNameOf(child) ==
    IF child.objectName # "" THEN child.objectName ELSE child.children[1].objectName

\* the names of `output` are those of the places pos[1] < pos[2] < ... of `source`
EmbedsInOrder(output, source, upTo) ==
    \E pos \in [1..Len(output) -> 1..upTo] :
        /\ \A j \in 1..Len(output) : \A l \in 1..Len(output) : j < l => pos[j] < pos[l]
        /\ \A j \in 1..Len(output) : source[pos[j]] = ChildNameOf(output[j])

\* C26: on every node under construction the output children (or their
\* per-child transform wrappers) stand, in order, for distinct places of the
\* source child list that the loop has passed; when the build has finished the
\* root's output children are exactly its child occurrences that built to a
\* node, in list order.
C26_ChildOrderPreserved ==
    /\ \A i \in 1..Len(stack) :
          LET source == ChildrenOf(stack[i])
              passed == IF stack[i].idx - 1 < Len(source) THEN stack[i].idx - 1 ELSE Len(source)
          IN  EmbedsInOrder(NodeChildren(stack[i].processedNode), source, passed)
    /\ (BuildFinished /\ sceneRoot # Null) =>
          /\ EmbedsInOrder(NodeChildren(sceneRoot), getNode(m_sceneRoot).children,
                           Len(getNode(m_sceneRoot).children))
          /\ [j \in 1..Len(NodeChildren(sceneRoot)) |-> ChildNameOf(NodeChildren(sceneRoot)[j])]
                = RootChildrenBuilt

\* a finished build of r -> b, a under per-child transforms: the wrappers of
\* b and a in this order
C26_Witness ==
    /\ BuildFinished
    /\ sceneRoot # Null
    /\ getNode(m_sceneRoot).children = <<"b", "a">>
    /\ HasPerChildTransform(m_sceneRoot)
    /\ Len(sceneRoot.children) = 2
    /\ IsTransformWrapper(sceneRoot.children[1])
    /\ ChildNameOf(sceneRoot.children[1]) = "b"
    /\ ChildNameOf(sceneRoot.children[2]) = "a"

-----------------------------------------------------------------------------
\* C29: the snap points and lines of a PDFSnapInfo (SpecSnapInfo)

TypesOf(snapPoints) == [k \in 1..Len(snapPoints) |-> snapPoints[k].type]

LineCenterCount(info) ==
    Cardinality({k \in 1..Len(info.m_snapPoints) : info.m_snapPoints[k].type = "LineCenter"})

\* the step keeps the entries and adds the snap points of `types` and `lines` lines
SnapInfoGrowsBy(types, lines) ==
    /\ Len(snapInfo'.m_snapPoints) = Len(snapInfo.m_snapPoints) + Len(types)
    /\ SubSeq(snapInfo'.m_snapPoints, 1, Len(snapInfo.m_snapPoints)) = snapInfo.m_snapPoints
    /\ TypesOf(SubSeq(snapInfo'.m_snapPoints, Len(snapInfo.m_snapPoints) + 1,
                      Len(snapInfo'.m_snapPoints))) = types
    /\ Len(snapInfo'.m_snapLines) = Len(snapInfo.m_snapLines) + lines
    /\ SubSeq(snapInfo'.m_snapLines, 1, Len(snapInfo.m_snapLines)) = snapInfo.m_snapLines

\* C29: after every addPageMediaBox, addImage and addLine the number of
\* LineCenter snap points is the number of snap lines; addLine adds 1 point and
\* 1 line, addPageMediaBox and addImage add 9 points (4 corners, 1 center, 4
\* line centers) and 4 lines each; the entries before stay as they are.
C29_SnapInfoCounts ==
    [][/\ LineCenterCount(snapInfo') = Len(snapInfo'.m_snapLines)
       /\ addLineCall => SnapInfoGrowsBy(<<"LineCenter">>, 1)
       /\ addPageMediaBoxCall =>
             SnapInfoGrowsBy(<<"PageCorner", "PageCorner", "PageCorner", "PageCorner",
                               "PageCenter", "LineCenter", "LineCenter", "LineCenter",
                               "LineCenter">>, 4)
       /\ addImageCall =>
             SnapInfoGrowsBy(<<"ImageCorner", "ImageCorner", "ImageCorner", "ImageCorner",
                               "ImageCenter", "LineCenter", "LineCenter", "LineCenter",
                               "LineCenter">>, 4)]_vars

\* a line, then a page box, then a line: 11 snap points, 6 of them line
\* centers, and 6 lines
C29_Witness ==
    /\ Len(snapInfo.m_snapPoints) = 11
    /\ Len(snapInfo.m_snapLines) = 6
    /\ LineCenterCount(snapInfo) = 6
    /\ snapInfo.m_snapPoints[1].type = "LineCenter"
    /\ snapInfo.m_snapPoints[2].type = "PageCorner"
    /\ snapInfo.m_snapPoints[11] = SnapPoint("LineCenter", <<0, 2>>)

-----------------------------------------------------------------------------
\* C27, C28: the snapped point of a PDFSnapper (SpecSnapper)

\* C27: whenever the snapper is snapped, the snapped point is one of the
\* current snap points and its page allows snapping (no current page, or the
\* current page is the page of the point).
C27_SnappedPointListedAndAllowed ==
    isSnapped(snapper) =>
        /\ \E k \in 1..Len(snapper.m_snapPoints) :
              snapper.m_snapPoints[k] = snapper.m_snappedPoint.value
        /\ \/ snapper.m_currentPage = -1
           \/ snapper.m_currentPage = snapper.m_snappedPoint.value.pageIndex

\* the places of the snap points that qualify for the mouse point m: squared
\* viewport distance below the squared tolerance, on a page that allows snapping
Qualifying(m) ==
    {k \in 1..Len(snapper.m_snapPoints) :
        LET p == snapper.m_snapPoints[k].viewportPoint
        IN  /\ (m[1] - p[1]) * (m[1] - p[1]) + (m[2] - p[2]) * (m[2] - p[2])
                  < snapper.m_snapPointTolerance * snapper.m_snapPointTolerance
            /\ snapper.m_currentPage \in {-1, snapper.m_snapPoints[k].pageIndex}}

\* the outcome of updateSnappedPoint(m) on the snap points as they are
SnappedToFirst(m) ==
    /\ snapper'.m_snapPoints = snapper.m_snapPoints
    /\ IF Qualifying(m) = {}
       THEN /\ ~isSnapped(snapper')
            /\ getSnappedPoint(snapper') = m
       ELSE LET first == CHOOSE k \in Qualifying(m) : \A l \in Qualifying(m) : k <= l
            IN  /\ isSnapped(snapper')
                /\ snapper'.m_snappedPoint.value = snapper.m_snapPoints[first]
                /\ getSnappedPoint(snapper') = snapper.m_snapPoints[first].viewportPoint

\* C28: updateSnappedPoint(m) selects the first snap point in list order whose
\* squared viewport distance to m is below the squared tolerance and whose
\* page allows snapping, and none if there is no such point; getSnappedPoint
\* is then the viewport position of the selected point, or m.
C28_UpdateSelectsFirstQualifying ==
    [][updateSnappedPointCall => SnappedToFirst(snapper'.m_mousePoint)]_vars

\* page 1 is listed before page 0 and the mouse is within the tolerance of a
\* point of each: the snapper is on the point of page 1, at (2,1)
C28_Witness ==
    /\ isSnapped(snapper)
    /\ Len(snapper.m_snapPoints) = 2
    /\ snapper.m_snapPoints[1].pageIndex = 1
    /\ snapper.m_currentPage = -1
    /\ snapper.m_snapPointTolerance = 2
    /\ snapper.m_mousePoint = <<2, 0>>
    /\ snapper.m_snappedPoint.value = snapper.m_snapPoints[1]
    /\ getSnappedPoint(snapper) = <<2, 1>>

-----------------------------------------------------------------------------
\* C30: the tree of the differences (SpecDifferences)

\* the data of the children of the top level items, in tree order
RECURSIVE ChildData(_)
ChildData(topItems) ==
    IF topItems = <<>>
    THEN <<>>
    ELSE [k \in 1..Len(Head(topItems).children) |-> Head(topItems).children[k].data]
             \o ChildData(Tail(topItems))

PagesOf(diffResult, i) ==
    <<diffResult.differences[i + 1].leftPage, diffResult.differences[i + 1].rightPage>>

\* the tree that update() has to leave for the diff result
TreeShowsDifferences(tree, diffResult) ==
    IF diffResult = Null \/ diffResult.isSame
    THEN tree = <<>>
    ELSE /\ ChildData(tree) = [k \in 1..Len(diffResult.differences) |-> k - 1]
         /\ \A t \in 1..Len(tree) :
               /\ tree[t].children # <<>>
               /\ tree[t].text[1] = <<"#", t>>
               /\ \A k \in 1..Len(tree[t].children) :
                     /\ tree[t].children[k].children = <<>>
                     /\ PagesOf(diffResult, tree[t].children[k].data)
                            = PagesOf(diffResult, tree[t].children[1].data)
               /\ t < Len(tree) =>
                     PagesOf(diffResult, tree[t + 1].children[1].data)
                         # PagesOf(diffResult, tree[t].children[1].data)

\* C30: update() rebuilds the tree from scratch: empty without a diff result
\* or for equal documents; otherwise every difference index 0..n-1 is the data
\* of exactly one child item, in index order; the top level items are the
\* maximal runs of consecutive differences with the same (left page, right
\* page), never childless, numbered #1, #2, ... in order.
C30_TreeRebuiltFromDifferences ==
    [][updateCall => TreeShowsDifferences(differencesTreeWidget', m_diffResult)]_vars

\* two differences on page (0,0), then one on (0,1): item #1 with the indices
\* 0 and 1 and item #2 with the index 2
C30_Witness ==
    /\ m_diffResult # Null
    /\ ~m_diffResult.isSame
    /\ Len(m_diffResult.differences) = 3
    /\ Len(differencesTreeWidget) = 2
    /\ ChildData(differencesTreeWidget) = <<0, 1, 2>>
    /\ Len(differencesTreeWidget[1].children) = 2
    /\ differencesTreeWidget[2].text = <<(<<"#", 2>>), <<"Left", 1>>, <<"Right", 2>>>>
    /\ PagesOf(m_diffResult, 0) = <<0, 0>>

====
